---- MODULE Spec2Model ----
(***************************************************************************)
(* Temporal trend / lifecycle analyzer of the keyword-analysis package     *)
(* (src/slr_core/keyword_analysis/temporal_analyzer.py, TemporalAnalyzer). *)
(*                                                                         *)
(* Dates are kept at calendar-month granularity (year, month): every       *)
(* computation of the analyzer groups by pandas Period('M').  Floating     *)
(* point results are kept as exact rationals [num, den] (den > 0) with an  *)
(* explicit NaN flag, so that the comparisons the code makes on them       *)
(* (> 0, < 0, abs(.) < 0.01, sorting) are decided exactly.                 *)
(***************************************************************************)
EXTENDS Integers, Sequences, FiniteSets, TLC

VARIABLES
    publications,        \* the `publications` argument of the analysis calls
    keywords,            \* keywords.get('all_keywords', []) of the `keywords` argument
    set_order,           \* iteration order of Python sets of str in this process
    pub_dates,           \* local pub_date of each iteration of _prepare_temporal_data
    temporal_data,       \* local temporal_data of the last analysis call
    keyword_trends,      \* self.keyword_trends
    temporal_patterns,   \* self.temporal_patterns
    lifecycle_analysis,  \* self.lifecycle_analysis
    last_call,           \* the last public call and how it ended
    time_periods,        \* self.time_periods
    comparative_analysis,\* self.comparative_analysis
    exported,            \* the file written by export_temporal_analysis
    downloaded_articles, \* the DOIs recorded in app/system_data/downloaded_articles.json
    daily_request_count, \* the contents of app/system_data/daily_request_count.json
    today,               \* date.today(), as a day number
    download_count,      \* how often the client has written each DOI's XML file
    last_download,       \* the last downloader call, what it returned and requested
    calls,               \* the number of downloader calls made so far
    publication_trends,  \* self.publication_trends
    last_request         \* the last make_request_with_retry call: what it sent and how it ended

downloader_vars ==
    <<downloaded_articles, daily_request_count, today, download_count,
      last_download, calls>>

api_vars == <<last_request>>

vars == <<publications, keywords, set_order, pub_dates, temporal_data,
          keyword_trends, temporal_patterns, lifecycle_analysis, last_call,
          time_periods, comparative_analysis, exported, downloader_vars,
          publication_trends, api_vars>>

-----------------------------------------------------------------------------
(* Bounds of the model and program constants *)

MaxPubs == 5

MaxMonths == 4

MaxCount == 3

min_occurrences == 3

top_n == 10

-----------------------------------------------------------------------------
(* Generic helpers *)

Range(s) == {s[i] : i \in 1..Len(s)}

Abs(x) == IF x < 0 THEN -x ELSE x

RECURSIVE SumSeq(_)
SumSeq(s) ==
    IF s = <<>> THEN 0 ELSE Head(s) + SumSeq(Tail(s))

RECURSIVE SortedSeqOfSet(_)
SortedSeqOfSet(S) ==
    IF S = {} THEN <<>>
    ELSE LET lo == CHOOSE x \in S : \A z \in S : x <= z
         IN <<lo>> \o SortedSeqOfSet(S \ {lo})

(* floats: exact rationals, or NaN *)
NaN == [nan |-> TRUE, num |-> 0, den |-> 1]

Rat(n, d) == [nan |-> FALSE, num |-> n, den |-> d]

RatGt0(q) == ~q.nan /\ q.num > 0

RatLt0(q) == ~q.nan /\ q.num < 0

RatIs0(q) == ~q.nan /\ q.num = 0

\* q1 < q2; every comparison with NaN is False, as in IEEE-754
RatLess(q1, q2) ==
    ~q1.nan /\ ~q2.nan /\ q1.num * q2.den < q2.num * q1.den

-----------------------------------------------------------------------------
(* Publication records *)

\* The strings used as keywords; "AI" and "ai" differ only in case.
Strings == {"ai", "AI", "ml", "nlp", "cv"}

Lower(s) == IF s = "AI" THEN "ai" ELSE s

\* Values a date field of a publication dict can hold.
\*   absent : key missing, or a falsy value (None, '', 0)
\*   int    : a Python int year, e.g. 2020
\*   digits : a digit string, e.g. '2020'
\*   iso    : an ISO date string, e.g. '2020-04-15'
\*   text   : free text containing a 4-digit year, e.g. 'Published in 2020'
\*   junk   : a string holding no date at all, e.g. 'invalid_date'
Absent == [kind |-> "absent", y |-> 0, m |-> 0]

IntYear(y) == [kind |-> "int", y |-> y, m |-> 0]

Digits(y) == [kind |-> "digits", y |-> y, m |-> 0]

Iso(y, m) == [kind |-> "iso", y |-> y, m |-> m]

FreeText(y) == [kind |-> "text", y |-> y, m |-> 0]

Junk == [kind |-> "junk", y |-> 0, m |-> 0]

\* None
NoDate == [y |-> 0, m |-> 0]

MonthIdx(d) == d.y * 12 + (d.m - 1)

\* pd.to_datetime(value): an int is a count of nanoseconds since the epoch,
\* a digit string or ISO string is parsed, anything else raises ValueError.
pd_to_datetime(v) ==
    CASE v.kind = "int"    -> [raised |-> FALSE, y |-> 1970, m |-> 1]
      [] v.kind = "digits" -> [raised |-> FALSE, y |-> v.y, m |-> 1]
      [] v.kind = "iso"    -> [raised |-> FALSE, y |-> v.y, m |-> v.m]
      [] OTHER             -> [raised |-> TRUE, y |-> 0, m |-> 0]

\* datetime(int(value), 1, 1): int() raises ValueError on a non-digit string.
year_to_datetime(v) ==
    CASE v.kind \in {"int", "digits"} -> [raised |-> FALSE, y |-> v.y, m |-> 1]
      [] OTHER                        -> [raised |-> TRUE, y |-> 0, m |-> 0]

date_fields == <<"publication_date", "published_date", "date", "year">>

RECURSIVE ExtractDateFrom(_, _)
ExtractDateFrom(publication, i) ==
    IF i > Len(date_fields) THEN NoDate
    ELSE LET field == date_fields[i]
             v == publication[field]
         IN IF v.kind = "absent" THEN ExtractDateFrom(publication, i + 1)
            ELSE LET r == IF field = "year" THEN year_to_datetime(v)
                                            ELSE pd_to_datetime(v)
                 IN IF r.raised THEN ExtractDateFrom(publication, i + 1)
                    ELSE [y |-> r.y, m |-> r.m]

_extract_publication_date(publication) == ExtractDateFrom(publication, 1)

\* list(set(xs)): the distinct elements, in the set's iteration order
ListOfSet(S, order) == SelectSeq(order, LAMBDA s : s \in S)

\* pub_keywords before the final list(set(...))
RawPublicationKeywords(publication, all_keywords) ==
    publication.keywords
        \o SelectSeq(all_keywords, LAMBDA k : Lower(k) \in publication.text)

_extract_publication_keywords_nodedup(publication, all_keywords, order) ==
    RawPublicationKeywords(publication, all_keywords)

_extract_publication_keywords(publication, all_keywords, order) ==
    ListOfSet(Range(RawPublicationKeywords(publication, all_keywords)), order)

-----------------------------------------------------------------------------
(* _prepare_temporal_data *)

\* A Python dict keyed by keyword: `order` is the insertion order of the keys,
\* `data[k]` the value (the list of occurrence records), <<>> for a missing key.
EmptyTemporalData == [order |-> <<>>, data |-> [s \in Strings |-> <<>>]]

RECURSIVE AppendOccurrences(_, _, _)
AppendOccurrences(td, pub_keywords, rec) ==
    IF pub_keywords = <<>> THEN td
    ELSE LET k == Head(pub_keywords)
             td1 == [order |-> IF k \in Range(td.order) THEN td.order
                               ELSE Append(td.order, k),
                     data  |-> [td.data EXCEPT ![k] = Append(@, rec)]]
         IN AppendOccurrences(td1, Tail(pub_keywords), rec)

\* The loop over the publications from publication i on, `td` being the
\* dict built so far.  The second disjunct is never true: reading td.order
\* makes TLC evaluate the dict of each iteration before the next one starts,
\* as the loop does, instead of nesting the evaluations of a long corpus.
RECURSIVE PrepareFrom(_, _, _, _, _)
PrepareFrom(pubs, all_keywords, order, i, td) ==
    IF i > Len(pubs) \/ Len(td.order) < 0 THEN td
    ELSE LET pub_date == _extract_publication_date(pubs[i])
         IN IF pub_date = NoDate
            THEN PrepareFrom(pubs, all_keywords, order, i + 1, td)
            ELSE LET pub_keywords ==
                         _extract_publication_keywords(pubs[i], all_keywords, order)
                     rec == [y |-> pub_date.y, m |-> pub_date.m, pub |-> i]
                 IN PrepareFrom(pubs, all_keywords, order, i + 1,
                                AppendOccurrences(td, pub_keywords, rec))

\* A variant that keeps a dict across calls and appends to it.
_prepare_temporal_data_accumulating(pubs, all_keywords, order) ==
    PrepareFrom(pubs, all_keywords, order, 1, temporal_data)

_prepare_temporal_data(pubs, all_keywords, order) ==
    PrepareFrom(pubs, all_keywords, order, 1, EmptyTemporalData)

ExtractDates(pubs) == [i \in 1..Len(pubs) |-> _extract_publication_date(pubs[i])]

-----------------------------------------------------------------------------
(* Monthly series and linear regression *)

\* df.groupby(df['date'].dt.to_period('M')).size(): one entry per month that
\* has at least one row, in ascending month order.
monthly_counts(data) ==
    LET months == {MonthIdx(data[i]) : i \in 1..Len(data)}
        sorted == SortedSeqOfSet(months)
    IN [j \in 1..Len(sorted) |->
           [period |-> sorted[j],
            count  |-> Cardinality({i \in 1..Len(data) : MonthIdx(data[i]) = sorted[j]})]]

Counts(series) == [j \in 1..Len(series) |-> series[j].count]

\* n*Sum(x*y) - Sum(x)*Sum(y) and friends for x = 0..n-1
SXX(y) ==
    LET n == Len(y)
    IN n * SumSeq([j \in 1..n |-> (j - 1) * (j - 1)])
         - SumSeq([j \in 1..n |-> j - 1]) * SumSeq([j \in 1..n |-> j - 1])

SXY(y) ==
    LET n == Len(y)
    IN n * SumSeq([j \in 1..n |-> (j - 1) * y[j]])
         - SumSeq([j \in 1..n |-> j - 1]) * SumSeq(y)

SYY(y) ==
    LET n == Len(y)
    IN n * SumSeq([j \in 1..n |-> y[j] * y[j]]) - SumSeq(y) * SumSeq(y)

\* Squared two-sided 5% critical value of Pearson's r for df degrees of
\* freedom, in ten-thousandths: t^2 / (t^2 + df) with t the 97.5% quantile
\* of Student's t (0.9025 exactly for df = 2).  p_value < 0.05 iff r^2
\* exceeds it.
CritR2(df) ==
    CASE df = 1 -> 9938
      [] df = 2 -> 9025
      [] df = 3 -> 7715
      [] df = 4 -> 6584
      [] df = 5 -> 5693
      [] df = 6 -> 4995
      [] df = 7 -> 4441
      [] OTHER  -> 3993

\* scipy.stats.linregress(np.arange(n), y).  With one point the covariance
\* matrix is zero: r is set to 0.0, slope = 0.0/0.0 = nan and the p-value is
\* nan.  With two points the p-value is 1.0 if y[0] == y[1] else 0.0.
\* p_value is kept as the class the code distinguishes: nan, < 0.05, >= 0.05.
linregress(y) ==
    LET n == Len(y)
        sxx == SXX(y)
        sxy == SXY(y)
        syy == SYY(y)
    IN IF n = 1
       THEN [slope |-> NaN, r_squared |-> Rat(0, 1), p_value |-> "nan"]
       ELSE [slope |-> Rat(sxy, sxx),
             r_squared |-> IF syy = 0 THEN Rat(0, 1) ELSE Rat(sxy * sxy, sxx * syy),
             p_value |->
                 IF n = 2 THEN (IF y[1] = y[2] THEN ">=0.05" ELSE "<0.05")
                 ELSE IF syy # 0 /\ sxy * sxy * 10000 > CritR2(n - 2) * sxx * syy
                      THEN "<0.05" ELSE ">=0.05"]

\* A variant that takes the last maximum.
IdxMax_last(y) == CHOOSE j \in 1..Len(y) :
                      /\ \A l \in 1..Len(y) : y[l] <= y[j]
                      /\ \A l \in (j + 1)..Len(y) : y[l] < y[j]

\* monthly_counts.idxmax(): position of the first maximum
IdxMax(y) == CHOOSE j \in 1..Len(y) :
                 /\ \A l \in 1..Len(y) : y[l] <= y[j]
                 /\ \A l \in 1..(j - 1) : y[l] < y[j]

trend_direction_of(slope) ==
    IF RatGt0(slope) THEN "increasing"
    ELSE IF RatLt0(slope) THEN "decreasing" ELSE "stable"

_analyze_single_keyword_trend(keyword, data) ==
    LET series == monthly_counts(data)
        y == Counts(series)
        reg == linregress(y)
    IN [keyword           |-> keyword,
        total_occurrences |-> Len(data),
        time_span_months  |-> Len(series),
        trend_slope       |-> reg.slope,
        trend_direction   |-> trend_direction_of(reg.slope),
        r_squared         |-> reg.r_squared,
        p_value           |-> reg.p_value,
        monthly_var       |-> Rat(SYY(y), Len(y) * Len(y)),
        first_occurrence  |-> series[1].period,
        last_occurrence   |-> series[Len(series)].period,
        peak_month        |-> series[IdxMax(y)].period,
        peak_count        |-> y[IdxMax(y)],
        monthly_data      |-> series]

-----------------------------------------------------------------------------
(* Aggregation of the per-keyword trend results *)

\* abs(slope) < 0.01
AbsBelowHundredth(q) == ~q.nan /\ Abs(q.num) * 100 < q.den

\* sorted(xs, key=...): a stable sort; x is inserted after every element
\* whose key is not strictly greater than its own.
RECURSIVE InsertSorted(_, _)
InsertSorted(sorted, x) ==
    IF sorted = <<>> THEN <<x>>
    ELSE IF RatLess(x.key, Head(sorted).key) THEN <<x>> \o sorted
    ELSE <<Head(sorted)>> \o InsertSorted(Tail(sorted), x)

RECURSIVE StableSort(_)
StableSort(xs) ==
    IF xs = <<>> THEN <<>>
    ELSE InsertSorted(StableSort(SubSeq(xs, 1, Len(xs) - 1)), xs[Len(xs)])

RatNeg(q) == [q EXCEPT !.num = -q.num]

\* sorted(xs, key=lambda x: x[...]) ascending in keys[j], the key of xs[j]
SortedAscending(xs, keys) ==
    LET tagged == StableSort([j \in 1..Len(xs) |-> [key |-> keys[j], x |-> xs[j]]])
    IN [j \in 1..Len(xs) |-> tagged[j].x]

\* sorted(xs, key=..., reverse=True): descending, ties in their original order
SortedDescending(xs, keys) ==
    SortedAscending(xs, [j \in 1..Len(xs) |-> RatNeg(keys[j])])

FirstN(xs, n) == SubSeq(xs, 1, IF Len(xs) < n THEN Len(xs) ELSE n)

ListEntry(result) ==
    [keyword           |-> result.keyword,
     slope             |-> result.trend_slope,
     r_squared         |-> result.r_squared,
     monthly_var       |-> result.monthly_var,
     total_occurrences |-> result.total_occurrences]

_identify_growing_keywords_no_pvalue(trend_results) ==
    LET growing == SelectSeq(trend_results, LAMBDA r : RatGt0(r.trend_slope))
        entries == [j \in 1..Len(growing) |-> ListEntry(growing[j])]
    IN FirstN(SortedDescending(entries, [j \in 1..Len(entries) |-> entries[j].slope]), top_n)

_identify_growing_keywords(trend_results) ==
    LET growing == SelectSeq(trend_results,
                       LAMBDA r : RatGt0(r.trend_slope) /\ r.p_value = "<0.05")
        entries == [j \in 1..Len(growing) |-> ListEntry(growing[j])]
    IN FirstN(SortedDescending(entries, [j \in 1..Len(entries) |-> entries[j].slope]), top_n)

_identify_declining_keywords(trend_results) ==
    LET declining == SelectSeq(trend_results,
                         LAMBDA r : RatLt0(r.trend_slope) /\ r.p_value = "<0.05")
        entries == [j \in 1..Len(declining) |-> ListEntry(declining[j])]
    IN FirstN(SortedAscending(entries, [j \in 1..Len(entries) |-> entries[j].slope]), top_n)

\* consistency = 1 / (monthly_std + 1) descending is monthly_std ascending
_identify_stable_keywords(trend_results) ==
    LET stable == SelectSeq(trend_results,
                      LAMBDA r : AbsBelowHundredth(r.trend_slope)
                                 /\ r.total_occurrences >= 5)
        entries == [j \in 1..Len(stable) |-> ListEntry(stable[j])]
    IN FirstN(SortedAscending(entries, [j \in 1..Len(entries) |-> entries[j].monthly_var]),
              top_n)

\* the integer-valued entries; {} for no result is all zeros
_calculate_trend_summary(trend_results) ==
    [total_keywords  |-> Len(trend_results),
     positive_trends |-> Len(SelectSeq(trend_results, LAMBDA r : RatGt0(r.trend_slope))),
     negative_trends |-> Len(SelectSeq(trend_results, LAMBDA r : RatLt0(r.trend_slope))),
     neutral_trends  |-> Len(SelectSeq(trend_results,
                                       LAMBDA r : AbsBelowHundredth(r.trend_slope)))]

\* the keys of temporal_data that pass `len(data) >= self.min_occurrences`,
\* in dict order
AnalyzedKeywords(td) ==
    SelectSeq(td.order, LAMBDA k : Len(td.data[k]) >= min_occurrences)

\* A stored result attribute that is still the {} of __init__
EmptyDict == [empty |-> TRUE]

TrendsOf(td) ==
    LET ks == AnalyzedKeywords(td)
        trend_results ==
            [j \in 1..Len(ks) |-> _analyze_single_keyword_trend(ks[j], td.data[ks[j]])]
    IN [empty                |-> FALSE,
        individual_trends    |-> trend_results,
        summary_statistics   |-> _calculate_trend_summary(trend_results),
        top_growing_keywords |-> _identify_growing_keywords(trend_results),
        declining_keywords   |-> _identify_declining_keywords(trend_results),
        stable_keywords      |-> _identify_stable_keywords(trend_results)]

analyze_keyword_trends_call(pubs, all_keywords) ==
    LET td == _prepare_temporal_data(pubs, all_keywords, set_order)
    IN /\ pub_dates' = ExtractDates(pubs)
       /\ temporal_data' = td
       /\ keyword_trends' = TrendsOf(td)
       /\ last_call' = [op |-> "analyze_keyword_trends", status |-> "returned"]
       /\ publications' = pubs
       /\ keywords' = all_keywords
       /\ UNCHANGED <<set_order, temporal_patterns, lifecycle_analysis>>
       /\ UNCHANGED <<time_periods, comparative_analysis, exported>>
       /\ UNCHANGED <<publication_trends, downloader_vars, api_vars>>

analyze_keyword_trends == analyze_keyword_trends_call(publications, keywords)

-----------------------------------------------------------------------------
(* Pattern detection *)

\* series.autocorr(lag=12) is Pearson's r of (y[j], y[j+12]); the test
\* abs(r) > 0.3 is decided on r^2 > 0.09; a nan r gives strength 0.
_detect_seasonality(y) ==
    IF Len(y) < 24
    THEN [detected |-> FALSE, reason |-> "insufficient_data"]
    ELSE LET m == Len(y) - 12
             a == SubSeq(y, 1, m)
             b == SubSeq(y, 13, Len(y))
             cov == m * SumSeq([j \in 1..m |-> a[j] * b[j]]) - SumSeq(a) * SumSeq(b)
             va == m * SumSeq([j \in 1..m |-> a[j] * a[j]]) - SumSeq(a) * SumSeq(a)
             vb == m * SumSeq([j \in 1..m |-> b[j] * b[j]]) - SumSeq(b) * SumSeq(b)
         IN [detected |-> va # 0 /\ vb # 0 /\ 100 * cov * cov > 9 * va * vb,
             reason   |-> "none"]

\* scipy.signal.find_peaks(x)[0]: the middle of every flat run whose two
\* neighbours are strictly lower; the first and last sample are never peaks.
\* Positions are 0-based as in the code.
find_peaks(x) ==
    {(l + r - 2) \div 2 :
        <<l, r>> \in {lr \in (2..(Len(x) - 1)) \X (2..(Len(x) - 1)) :
                        /\ lr[1] <= lr[2]
                        /\ \A j \in lr[1]..lr[2] : x[j] = x[lr[1]]
                        /\ x[lr[1] - 1] < x[lr[1]]
                        /\ x[lr[2] + 1] < x[lr[2]]}}

Negated(x) == [j \in 1..Len(x) |-> -x[j]]

\* `cyclical_key` tells whether the returned dict has the keys 'cyclical',
\* 'peaks_detected', 'troughs_detected' (the long-series branch) or only
\* 'detected' and 'reason' (the short-series branch).
_detect_cycles(y) ==
    IF Len(y) < 6
    THEN [cyclical_key |-> FALSE, reason |-> "insufficient_data",
          peaks_detected |-> 0, troughs_detected |-> 0, cyclical |-> FALSE]
    ELSE LET peaks == find_peaks(y)
             troughs == find_peaks(Negated(y))
         IN [cyclical_key |-> TRUE, reason |-> "none",
             peaks_detected |-> Cardinality(peaks),
             troughs_detected |-> Cardinality(troughs),
             cyclical |-> Cardinality(peaks) > 1 /\ Cardinality(troughs) > 1]

Min(a, b) == IF a < b THEN a ELSE b

\* rolling_slopes: np.polyfit(arange(window), part, 1)[0] is SXY/SXX of the
\* part; both parts have `window` points, hence the same SXX.
rolling_slopes(series) ==
    LET y == Counts(series)
        n == Len(y)
        window == Min(6, n \div 3)
        is == SortedSeqOfSet(window..(n - window - 1))
    IN [j \in 1..Len(is) |->
           LET i == is[j]
               before == SubSeq(y, i - window + 1, i)
               after == SubSeq(y, i + 1, i + window)
           IN [index        |-> i,
               date         |-> series[i + 1].period,
               slope_change |-> Rat(SXY(after) - SXY(before), SXX(after))]]

\* significance > 2 * np.std(slope_changes), on the common denominator:
\* m^2 * d^2 > 4 * (m * Sum(d^2) - Sum(d)^2)
_detect_trend_changes(series) ==
    IF Len(series) < 6 THEN <<>>
    ELSE LET rs == rolling_slopes(series)
             d == [j \in 1..Len(rs) |-> rs[j].slope_change.num]
             m == Len(rs)
             spread == m * SumSeq([j \in 1..m |-> d[j] * d[j]]) - SumSeq(d) * SumSeq(d)
         IN FirstN(SelectSeq(rs, LAMBDA s :
                       m * m * s.slope_change.num * s.slope_change.num > 4 * spread), 5)

\* monthly_counts.std() / monthly_counts.mean() with the sample standard
\* deviation (ddof=1), nan for a single month; kept squared.
VolatilitySquared(y) ==
    IF Len(y) = 1 THEN NaN
    ELSE Rat(SYY(y) * Len(y), (Len(y) - 1) * SumSeq(y) * SumSeq(y))

_detect_keyword_patterns(keyword, data) ==
    LET series == monthly_counts(data)
        y == Counts(series)
    IN [keyword           |-> keyword,
        seasonality       |-> _detect_seasonality(y),
        cyclical_patterns |-> _detect_cycles(y),
        trend_changes     |-> _detect_trend_changes(series),
        volatility_sq     |-> VolatilitySquared(y)]

\* p['cyclical_patterns']['cyclical'] raises KeyError on a dict of the
\* short-series branch of _detect_cycles
SummarizeRaises(patterns) ==
    \E j \in 1..Len(patterns) : ~patterns[j].cyclical_patterns.cyclical_key

\* the integer-valued entries; {} for no pattern is all zeros
_summarize_patterns(patterns) ==
    [total_keywords_analyzed |-> Len(patterns),
     seasonal_keywords |-> Len(SelectSeq(patterns, LAMBDA p : p.seasonality.detected)),
     cyclical_keywords |-> Len(SelectSeq(patterns, LAMBDA p : p.cyclical_patterns.cyclical)),
     keywords_with_trend_changes |->
         Len(SelectSeq(patterns, LAMBDA p : p.trend_changes # <<>>))]

\* volatility > 2.0
_detect_anomalies(patterns) ==
    LET high == SelectSeq(patterns, LAMBDA p :
                    ~p.volatility_sq.nan /\ p.volatility_sq.num > 4 * p.volatility_sq.den)
    IN [j \in 1..Len(high) |-> [keyword |-> high[j].keyword, type |-> "high_volatility"]]

RatAbs(q) == [q EXCEPT !.num = Abs(q.num)]

RECURSIVE Flatten(_)
Flatten(ss) ==
    IF ss = <<>> THEN <<>> ELSE Head(ss) \o Flatten(Tail(ss))

\* abs(slope_change) > 0.5, pooled over the keywords in dict order
_detect_change_points(patterns) ==
    LET per_keyword ==
            [j \in 1..Len(patterns) |->
                LET big == SelectSeq(patterns[j].trend_changes, LAMBDA c :
                               2 * Abs(c.slope_change.num) > c.slope_change.den)
                IN [l \in 1..Len(big) |->
                       [keyword      |-> patterns[j].keyword,
                        date         |-> big[l].date,
                        slope_change |-> big[l].slope_change]]]
        change_points == Flatten(per_keyword)
    IN FirstN(SortedDescending(change_points,
                  [j \in 1..Len(change_points) |-> RatAbs(change_points[j].slope_change)]),
              20)

PatternsOf(td) ==
    LET ks == AnalyzedKeywords(td)
    IN [j \in 1..Len(ks) |-> _detect_keyword_patterns(ks[j], td.data[ks[j]])]

detect_temporal_patterns_call(pubs, all_keywords) ==
    LET td == _prepare_temporal_data(pubs, all_keywords, set_order)
        patterns == PatternsOf(td)
    IN /\ pub_dates' = ExtractDates(pubs)
       /\ temporal_data' = td
       /\ IF SummarizeRaises(patterns)
          THEN /\ temporal_patterns' = temporal_patterns
               /\ last_call' = [op |-> "detect_temporal_patterns", status |-> "raised"]
          ELSE /\ temporal_patterns' =
                      [empty            |-> FALSE,
                       keyword_patterns |-> patterns,
                       pattern_summary  |-> _summarize_patterns(patterns),
                       anomalies        |-> _detect_anomalies(patterns),
                       change_points    |-> _detect_change_points(patterns)]
               /\ last_call' = [op |-> "detect_temporal_patterns", status |-> "returned"]
       /\ publications' = pubs
       /\ keywords' = all_keywords
       /\ UNCHANGED <<set_order, keyword_trends, lifecycle_analysis>>
       /\ UNCHANGED <<time_periods, comparative_analysis, exported>>
       /\ UNCHANGED <<publication_trends, downloader_vars, api_vars>>

detect_temporal_patterns == detect_temporal_patterns_call(publications, keywords)

-----------------------------------------------------------------------------
(* Lifecycle analysis *)

Cumulative(y) == [j \in 1..Len(y) |-> SumSeq(SubSeq(y, 1, j))]

\* cumulative[cumulative >= total_usage * threshold].index[0] for the
\* threshold tenths/10; the last month always qualifies.
PhaseEnd(series, tenths) ==
    LET y == Counts(series)
        cumulative == Cumulative(y)
        total_usage == SumSeq(y)
        j == CHOOSE j \in 1..Len(y) :
                 /\ 10 * cumulative[j] >= tenths * total_usage
                 /\ \A l \in 1..(j - 1) : 10 * cumulative[l] < tenths * total_usage
    IN [end_period |-> series[j].period, usage_at_end |-> cumulative[j]]

_identify_lifecycle_phases_swapped(series) ==
    [emergence |-> PhaseEnd(series, 9),
     growth    |-> PhaseEnd(series, 5),
     maturity  |-> PhaseEnd(series, 1)]

_identify_lifecycle_phases(series) ==
    [emergence |-> PhaseEnd(series, 1),
     growth    |-> PhaseEnd(series, 5),
     maturity  |-> PhaseEnd(series, 9)]

_determine_current_stage(phases, peak_position) ==
    IF 10 * peak_position.num < 3 * peak_position.den THEN "early_peak"
    ELSE IF 10 * peak_position.num < 7 * peak_position.den THEN "mature"
    ELSE "late_stage"

\* np.log(k) in units of 1e-5, for k = 1..40
LnTable ==
    << 0, 69315, 109861, 138629, 160944, 179176, 194591, 207944, 219722,
       230259, 239790, 248491, 256495, 263906, 270805, 277259, 283321,
       289037, 294444, 299573, 304452, 309104, 313549, 317805, 321888,
       325810, 329584, 333220, 336730, 340120, 343399, 346574, 349651,
       352636, 355535, 358352, 361092, 363759, 366356, 368888 >>

\* slope of linregress(arange(n), np.log(cumulative_usage + 1))
_calculate_growth_rate(cumulative_usage) ==
    IF Len(cumulative_usage) < 2 THEN Rat(0, 1)
    ELSE LET logs == [j \in 1..Len(cumulative_usage) |->
                         LnTable[cumulative_usage[j] + 1]]
         IN Rat(SXY(logs), SXX(logs) * 100000)

MaxOf(y) == y[IdxMax(y)]

\* the same without the guard on the length of the series
_calculate_maturity_index_unguarded(y) ==
    LET tail == SubSeq(y, IF Len(y) < 3 THEN 1 ELSE Len(y) - 2, Len(y))
        recent == SumSeq(tail)
    IN IF recent > Len(tail) * MaxOf(y) THEN Rat(1, 1)
       ELSE Rat(recent, Len(tail) * MaxOf(y))

\* min(1.0, monthly_counts.tail(3).mean() / monthly_counts.max())
_calculate_maturity_index(y) ==
    IF Len(y) < 3 THEN Rat(0, 1)
    ELSE IF MaxOf(y) = 0 THEN Rat(0, 1)
    ELSE LET recent == SumSeq(SubSeq(y, Len(y) - 2, Len(y)))
         IN IF recent > 3 * MaxOf(y) THEN Rat(1, 1) ELSE Rat(recent, 3 * MaxOf(y))

_analyze_keyword_lifecycle(keyword, data) ==
    LET series == monthly_counts(data)
        y == Counts(series)
        phases == _identify_lifecycle_phases(series)
        lifespan_months == Len(series)
        peak_position == Rat(IdxMax(y) - 1, lifespan_months)
    IN [keyword         |-> keyword,
        lifespan_months |-> lifespan_months,
        total_usage     |-> Len(data),
        peak_month      |-> series[IdxMax(y)].period,
        peak_position   |-> peak_position,
        phases          |-> phases,
        current_stage   |-> _determine_current_stage(phases, peak_position),
        growth_rate     |-> _calculate_growth_rate(Cumulative(y)),
        maturity_index  |-> _calculate_maturity_index(y)]

\* q > a/b and q < a/b for b > 0
RatAbove(q, a, b) == q.num * b > a * q.den

RatBelow(q, a, b) == q.num * b < a * q.den

\* the same chain with the 'declining' test moved before the 'growing' test
CategoryOf_declining_first(result) ==
    LET stage == result.current_stage
        growth_rate == result.growth_rate
        maturity_index == result.maturity_index
    IN IF stage = "early_peak" /\ RatAbove(growth_rate, 1, 10) THEN "emerging"
       ELSE IF RatBelow(growth_rate, -1, 20) \/ RatBelow(maturity_index, 3, 10)
            THEN "declining"
       ELSE IF RatAbove(growth_rate, 1, 20) /\ RatBelow(maturity_index, 8, 10)
            THEN "growing"
       ELSE "mature"

\* the category of one result, by the if/elif chain
CategoryOf(result) ==
    LET stage == result.current_stage
        growth_rate == result.growth_rate
        maturity_index == result.maturity_index
    IN IF stage = "early_peak" /\ RatAbove(growth_rate, 1, 10) THEN "emerging"
       ELSE IF RatAbove(growth_rate, 1, 20) /\ RatBelow(maturity_index, 8, 10)
            THEN "growing"
       ELSE IF RatAbove(maturity_index, 8, 10) /\ RatBelow(RatAbs(growth_rate), 1, 20)
            THEN "mature"
       ELSE IF RatBelow(growth_rate, -1, 20) \/ RatBelow(maturity_index, 3, 10)
            THEN "declining"
       ELSE "mature"

KeywordsIn(lifecycle_results, category) ==
    LET rs == SelectSeq(lifecycle_results, LAMBDA r : CategoryOf(r) = category)
    IN [j \in 1..Len(rs) |-> rs[j].keyword]

_categorize_lifecycle_stages(lifecycle_results) ==
    [emerging  |-> KeywordsIn(lifecycle_results, "emerging"),
     growing   |-> KeywordsIn(lifecycle_results, "growing"),
     mature    |-> KeywordsIn(lifecycle_results, "mature"),
     declining |-> KeywordsIn(lifecycle_results, "declining")]

LifecycleOf(td) ==
    LET ks == AnalyzedKeywords(td)
        lifecycle_results ==
            [j \in 1..Len(ks) |-> _analyze_keyword_lifecycle(ks[j], td.data[ks[j]])]
        lifecycle_categories == _categorize_lifecycle_stages(lifecycle_results)
    IN [empty                 |-> FALSE,
        individual_lifecycles |-> lifecycle_results,
        lifecycle_categories  |-> lifecycle_categories,
        emerging_keywords     |-> lifecycle_categories.emerging,
        mature_keywords       |-> lifecycle_categories.mature,
        declining_keywords    |-> lifecycle_categories.declining]

analyze_keyword_lifecycle_call(pubs, all_keywords) ==
    LET td == _prepare_temporal_data(pubs, all_keywords, set_order)
    IN /\ pub_dates' = ExtractDates(pubs)
       /\ temporal_data' = td
       /\ lifecycle_analysis' = LifecycleOf(td)
       /\ last_call' = [op |-> "analyze_keyword_lifecycle", status |-> "returned"]
       /\ publications' = pubs
       /\ keywords' = all_keywords
       /\ UNCHANGED <<set_order, keyword_trends, temporal_patterns>>
       /\ UNCHANGED <<time_periods, comparative_analysis, exported>>
       /\ UNCHANGED <<publication_trends, downloader_vars, api_vars>>

analyze_keyword_lifecycle == analyze_keyword_lifecycle_call(publications, keywords)

-----------------------------------------------------------------------------
(* Period comparison *)

\* A variant whose end year is exclusive.
_filter_publications_by_period_exclusive(pubs, period_config) ==
    SelectSeq(pubs, LAMBDA pub :
        LET pub_date == _extract_publication_date(pub)
        IN /\ pub_date # NoDate
           /\ period_config.start <= pub_date.y
           /\ pub_date.y < period_config.end)

_filter_publications_by_period(pubs, period_config) ==
    SelectSeq(pubs, LAMBDA pub :
        LET pub_date == _extract_publication_date(pub)
        IN /\ pub_date # NoDate
           /\ period_config.start <= pub_date.y
           /\ pub_date.y <= period_config.end)

\* A Counter: `order` is the insertion order of its keys, count[k] is 0 for
\* a missing key.
EmptyCounter == [order |-> <<>>, count |-> [s \in Strings |-> 0]]

RECURSIVE CounterUpdate(_, _)
CounterUpdate(kc, pub_keywords) ==
    IF pub_keywords = <<>> THEN kc
    ELSE LET k == Head(pub_keywords)
         IN CounterUpdate([order |-> IF k \in Range(kc.order) THEN kc.order
                                     ELSE Append(kc.order, k),
                           count |-> [kc.count EXCEPT ![k] = @ + 1]],
                          Tail(pub_keywords))

RECURSIVE CountFrom(_, _, _, _, _)
CountFrom(pubs, all_keywords, order, i, kc) ==
    IF i > Len(pubs) THEN kc
    ELSE CountFrom(pubs, all_keywords, order, i + 1,
                   CounterUpdate(kc, _extract_publication_keywords(
                                         pubs[i], all_keywords, order)))

_extract_keywords_from_publications(pubs, all_keywords, order) ==
    CountFrom(pubs, all_keywords, order, 1, EmptyCounter)

\* the same with count1 / count2 as the change ratio
keyword_change_inverted(keyword, count1, count2) ==
    [keyword |-> keyword, count1 |-> count1, count2 |-> count2,
     change_ratio |-> IF count1 > 0 /\ count2 > 0 THEN Rat(count1, count2)
                      ELSE IF count1 > 0 THEN Rat(0, 1) ELSE Rat(999, 1),
     change_type |->
         IF count1 > 0 /\ count2 > 0
         THEN (IF 5 * count1 > 6 * count2 THEN "increased"
               ELSE IF 5 * count1 < 4 * count2 THEN "decreased" ELSE "stable")
         ELSE IF count1 > 0 THEN "disappeared" ELSE "emerged",
     absolute_change |-> count2 - count1]

\* keyword_changes[keyword]: change_ratio > 1.2 is 5 * count2 > 6 * count1,
\* change_ratio < 0.8 is 5 * count2 < 4 * count1; float('inf') is stored as 999
keyword_change(keyword, count1, count2) ==
    [keyword |-> keyword, count1 |-> count1, count2 |-> count2,
     change_ratio |->
         IF count1 > 0 /\ count2 > 0 THEN Rat(count2, count1)
         ELSE IF count1 > 0 /\ count2 = 0 THEN Rat(0, 1)
         ELSE IF count1 = 0 /\ count2 > 0 THEN Rat(999, 1)
         ELSE Rat(1, 1),
     change_type |->
         IF count1 > 0 /\ count2 > 0
         THEN (IF 5 * count2 > 6 * count1 THEN "increased"
               ELSE IF 5 * count2 < 4 * count1 THEN "decreased" ELSE "stable")
         ELSE IF count1 > 0 /\ count2 = 0 THEN "disappeared"
         ELSE IF count1 = 0 /\ count2 > 0 THEN "emerged"
         ELSE "stable",
     absolute_change |-> count2 - count1]

KeywordsOfType(keyword_changes, change_type) ==
    LET cs == SelectSeq(keyword_changes, LAMBDA c : c.change_type = change_type)
    IN [j \in 1..Len(cs) |-> cs[j].keyword]

RatiosOfType(keyword_changes, change_type) ==
    LET cs == SelectSeq(keyword_changes, LAMBDA c : c.change_type = change_type)
    IN [j \in 1..Len(cs) |-> cs[j].change_ratio]

\* set(keywords1.keys()) | set(keywords2.keys()) is iterated in the set's order
_compare_keyword_sets(keywords1, keywords2, period1, period2, order) ==
    LET all_keywords == ListOfSet(Range(keywords1.order) \cup Range(keywords2.order),
                                  order)
        keyword_changes ==
            [j \in 1..Len(all_keywords) |->
                keyword_change(all_keywords[j], keywords1.count[all_keywords[j]],
                               keywords2.count[all_keywords[j]])]
    IN [comparison_periods     |-> <<period1, period2>>,
        total_keywords_period1 |-> Len(keywords1.order),
        total_keywords_period2 |-> Len(keywords2.order),
        common_keywords        |->
            Cardinality(Range(keywords1.order) \cap Range(keywords2.order)),
        emerging_keywords      |-> FirstN(KeywordsOfType(keyword_changes, "emerged"), 10),
        disappearing_keywords  |->
            FirstN(KeywordsOfType(keyword_changes, "disappeared"), 10),
        most_increasing        |->
            FirstN(SortedDescending(KeywordsOfType(keyword_changes, "increased"),
                                    RatiosOfType(keyword_changes, "increased")), 10),
        most_decreasing        |->
            FirstN(SortedAscending(KeywordsOfType(keyword_changes, "decreased"),
                                   RatiosOfType(keyword_changes, "decreased")), 10),
        keyword_changes        |-> keyword_changes]

\* the pairs (i, j), i < j, of `for i, period1 in enumerate(period_names):
\* for period2 in period_names[i+1:]`, in loop order
PeriodPairs(n) ==
    Flatten([i \in 1..n |-> [d \in 1..(n - i) |-> <<i, i + d>>]])

\* scipy.stats.mannwhitneyu(x, y).statistic, doubled: the number of pairs
\* with x[i] > y[j], ties counting one half
MannWhitneyU2(x, y) ==
    SumSeq([i \in 1..Len(x) |->
               SumSeq([j \in 1..Len(y) |->
                          IF x[i] > y[j] THEN 2 ELSE IF x[i] = y[j] THEN 1 ELSE 0])])

\* the same without the test on the number of common keywords
_perform_statistical_tests_unguarded(period_data, order) ==
    IF Len(period_data) < 2
    THEN [error |-> "Need at least 2 periods for statistical testing",
          pairwise |-> <<>>, overall_comparison |-> FALSE]
    ELSE LET common_keywords ==
                 ListOfSet({k \in Strings : \A j \in 1..Len(period_data) :
                                k \in Range(period_data[j].keywords.order)}, order)
             vector(j) == [l \in 1..Len(common_keywords) |->
                              period_data[j].keywords.count[common_keywords[l]]]
             pairs == PeriodPairs(Len(period_data))
         IN [error |-> "none",
             pairwise |-> [l \in 1..Len(pairs) |->
                 [period1 |-> period_data[pairs[l][1]].name,
                  period2 |-> period_data[pairs[l][2]].name,
                  test_type |-> "Mann-Whitney U",
                  statistic2 |-> MannWhitneyU2(vector(pairs[l][1]), vector(pairs[l][2])),
                  sample_sizes |-> <<Len(common_keywords), Len(common_keywords)>>]],
             overall_comparison |-> Len(period_data) > 2]

\* `error` is the value of the 'error' key, "none" when the dict has no such
\* key; `pairwise` the '<p1>_vs_<p2>' entries and `overall_comparison` whether
\* the Kruskal-Wallis entry is there.  The p-values are not kept.
_perform_statistical_tests(period_data, order) ==
    IF Len(period_data) < 2
    THEN [error |-> "Need at least 2 periods for statistical testing",
          pairwise |-> <<>>, overall_comparison |-> FALSE]
    ELSE LET common_keywords ==
                 ListOfSet({k \in Strings : \A j \in 1..Len(period_data) :
                                k \in Range(period_data[j].keywords.order)}, order)
             vector(j) == [l \in 1..Len(common_keywords) |->
                              period_data[j].keywords.count[common_keywords[l]]]
             pairs == PeriodPairs(Len(period_data))
         IN IF Len(common_keywords) < 5
            THEN [error |-> "Insufficient common keywords for statistical testing",
                  pairwise |-> <<>>, overall_comparison |-> FALSE]
            ELSE [error |-> "none",
                  pairwise |-> [l \in 1..Len(pairs) |->
                      [period1 |-> period_data[pairs[l][1]].name,
                       period2 |-> period_data[pairs[l][2]].name,
                       test_type |-> "Mann-Whitney U",
                       statistic2 |->
                           MannWhitneyU2(vector(pairs[l][1]), vector(pairs[l][2])),
                       sample_sizes |->
                           <<Len(common_keywords), Len(common_keywords)>>]],
                  overall_comparison |-> Len(period_data) > 2]

\* q1 + q2; a zero term leaves the other as it is
RatAdd(q1, q2) ==
    IF q1.num = 0 THEN q2
    ELSE IF q2.num = 0 THEN q1
    ELSE Rat(q1.num * q2.den + q2.num * q1.den, q1.den * q2.den)

RECURSIVE RatSum(_)
RatSum(qs) ==
    IF qs = <<>> THEN Rat(0, 1) ELSE RatAdd(Head(qs), RatSum(Tail(qs)))

\* slope of linregress(np.arange(n), values) for n >= 2:
\* 6 * Sum((2j - n - 1) * values[j]) / (n * (n^2 - 1)), j = 1..n
SlopeOfValues(values) ==
    LET n == Len(values)
        ws == RatSum([j \in 1..n |->
                         Rat((2 * j - n - 1) * values[j].num, values[j].den)])
    IN Rat(6 * ws.num, ws.den * n * (n * n - 1))

\* _calculate_diversity_trend, _calculate_concentration_trend and
\* _calculate_volume_trend
TrendOfValues(values) ==
    IF Len(values) < 2 THEN [trend |-> "insufficient_data", slope |-> Rat(0, 1)]
    ELSE [trend |-> IF RatGt0(SlopeOfValues(values)) THEN "increasing"
                    ELSE "decreasing",
          slope |-> SlopeOfValues(values)]

\* -sum(p * np.log(p)) for p = count / total: ln(total) - sum(c * ln(c)) / total,
\* in units of 1e-5
ShannonDiversity(counts) ==
    LET total == SumSeq(counts)
    IN Rat(total * LnTable[total]
             - SumSeq([j \in 1..Len(counts) |-> counts[j] * LnTable[counts[j]]]),
           total)

\* The same sum with the counts in ascending order.
ConcentrationIndex_ascending(counts) ==
    LET n == Len(counts)
        sorted_counts == SortedAscending(counts, [l \in 1..n |-> Rat(counts[l], 1)])
    IN IF n > 1 /\ SumSeq(counts) > 0
       THEN Rat(SumSeq([i \in 1..n |-> (2 * i - n - 1) * sorted_counts[i]]),
                n * SumSeq(counts))
       ELSE Rat(0, 1)

\* sum((2 * i - n - 1) * count for i, count in enumerate(sorted_counts, 1))
\*     / (n * total_occurrences), with the counts in descending order
ConcentrationIndex(counts) ==
    LET n == Len(counts)
        sorted_counts == SortedDescending(counts, [l \in 1..n |-> Rat(counts[l], 1)])
    IN IF n > 1 /\ SumSeq(counts) > 0
       THEN Rat(SumSeq([i \in 1..n |-> (2 * i - n - 1) * sorted_counts[i]]),
                n * SumSeq(counts))
       ELSE Rat(0, 1)

PeriodMetrics(period) ==
    LET ks == period.keywords.order
        counts == [j \in 1..Len(ks) |-> period.keywords.count[ks[j]]]
    IN [name               |-> period.name,
        total_keywords     |-> Len(ks),
        total_occurrences  |-> SumSeq(counts),
        average_frequency  |-> Rat(SumSeq(counts), Len(ks)),
        shannon_diversity  |-> ShannonDiversity(counts),
        concentration_index |-> ConcentrationIndex(counts),
        top_keywords       |->
            FirstN(SortedDescending(ks, [j \in 1..Len(ks) |-> Rat(counts[j], 1)]), 10)]

\* periods without keywords are skipped
_analyze_overall_trends(period_data) ==
    LET kept == SelectSeq(period_data, LAMBDA p : p.keywords.order # <<>>)
        period_metrics == [j \in 1..Len(kept) |-> PeriodMetrics(kept[j])]
    IN [period_metrics |-> period_metrics,
        trends |->
            [diversity_trend |->
                 TrendOfValues([j \in 1..Len(kept) |-> period_metrics[j].shannon_diversity]),
             concentration_trend |->
                 TrendOfValues([j \in 1..Len(kept) |->
                                   period_metrics[j].concentration_index]),
             volume_trend |->
                 TrendOfValues([j \in 1..Len(kept) |->
                                   Rat(period_metrics[j].total_occurrences, 1)])]]

compare_time_periods_call(pubs, all_keywords) ==
    LET period_data ==
            [j \in 1..Len(time_periods) |->
                [name |-> time_periods[j].name,
                 keywords |-> _extract_keywords_from_publications(
                     _filter_publications_by_period(pubs, time_periods[j]),
                     all_keywords, set_order)]]
        pairs == PeriodPairs(Len(period_data))
        comparisons ==
            [l \in 1..Len(pairs) |->
                _compare_keyword_sets(period_data[pairs[l][1]].keywords,
                                      period_data[pairs[l][2]].keywords,
                                      period_data[pairs[l][1]].name,
                                      period_data[pairs[l][2]].name, set_order)]
    IN /\ comparative_analysis' =
              [empty                |-> FALSE,
               period_data          |-> period_data,
               pairwise_comparisons |-> comparisons,
               statistical_tests    |-> _perform_statistical_tests(period_data, set_order),
               overall_trends       |-> _analyze_overall_trends(period_data)]
       /\ pub_dates' = IF time_periods = <<>> THEN pub_dates
                       ELSE ExtractDates(pubs)
       /\ last_call' = [op |-> "compare_time_periods", status |-> "returned"]
       /\ publications' = pubs
       /\ keywords' = all_keywords
       /\ UNCHANGED <<set_order, time_periods, temporal_data,
                      keyword_trends, temporal_patterns, lifecycle_analysis, exported>>
       /\ UNCHANGED <<publication_trends, downloader_vars, api_vars>>

compare_time_periods == compare_time_periods_call(publications, keywords)

-----------------------------------------------------------------------------
(* analyze_publication_trends *)

\* df.groupby(column).size(): one entry per value that has a row, in
\* ascending order of the value
GroupSizes(values) ==
    LET sorted == SortedSeqOfSet(Range(values))
    IN [j \in 1..Len(sorted) |->
           [key   |-> sorted[j],
            count |-> Cardinality({i \in 1..Len(values) : values[i] = sorted[j]})]]

\* Series.idxmin(): the position of the first minimum
IdxMin(y) == CHOOSE j \in 1..Len(y) :
                 /\ \A l \in 1..Len(y) : y[j] <= y[l]
                 /\ \A l \in 1..(j - 1) : y[j] < y[l]

\* yearly_counts.pct_change().fillna(0)
pct_change(y) ==
    [j \in 1..Len(y) |-> IF j = 1 THEN Rat(0, 1) ELSE Rat(y[j] - y[j - 1], y[j - 1])]

_analyze_publication_volume(dates) ==
    LET yearly_counts == GroupSizes([i \in 1..Len(dates) |-> dates[i].y])
        by_month == GroupSizes([i \in 1..Len(dates) |-> MonthIdx(dates[i])])
    IN [yearly_counts       |-> yearly_counts,
        monthly_counts      |-> by_month,
        yearly_growth_rates |-> pct_change(Counts(yearly_counts)),
        total_years         |-> Len(yearly_counts),
        peak_year           |-> yearly_counts[IdxMax(Counts(yearly_counts))].key,
        peak_count          |-> MaxOf(Counts(yearly_counts))]

_analyze_seasonal_patterns(dates) ==
    LET monthly_patterns == GroupSizes([i \in 1..Len(dates) |-> dates[i].m])
    IN [monthly_distribution |-> monthly_patterns,
        seasonal_indices     |->
            [j \in 1..Len(monthly_patterns) |->
                Rat(monthly_patterns[j].count * Len(monthly_patterns), Len(dates))],
        peak_month           |-> monthly_patterns[IdxMax(Counts(monthly_patterns))].key,
        low_month            |-> monthly_patterns[IdxMin(Counts(monthly_patterns))].key]

_analyze_growth_rates(dates) ==
    LET yearly_counts == GroupSizes([i \in 1..Len(dates) |-> dates[i].y])
    IN [growth_rates |-> pct_change(Counts(yearly_counts))]

\* analyze_publication_trends(publications).  The means, standard
\* deviations and the compound growth rate of the three helpers are floats
\* derived from the counts kept here.
analyze_publication_trends_call(pubs) ==
    LET dates == SelectSeq(ExtractDates(pubs), LAMBDA d : d # NoDate)
        first == CHOOSE i \in 1..Len(dates) :
                     \A l \in 1..Len(dates) : MonthIdx(dates[i]) <= MonthIdx(dates[l])
        last  == CHOOSE i \in 1..Len(dates) :
                     \A l \in 1..Len(dates) : MonthIdx(dates[l]) <= MonthIdx(dates[i])
    IN /\ pub_dates' = ExtractDates(pubs)
       /\ IF dates = <<>>
          THEN /\ publication_trends' = publication_trends
               /\ last_call' = [op |-> "analyze_publication_trends",
                                status |-> "returned_error"]
          ELSE /\ publication_trends' =
                      [empty              |-> FALSE,
                       volume_trends      |-> _analyze_publication_volume(dates),
                       seasonal_patterns  |-> _analyze_seasonal_patterns(dates),
                       growth_analysis    |-> _analyze_growth_rates(dates),
                       total_publications |-> Len(pubs),
                       date_range         |-> [start |-> dates[first],
                                               end   |-> dates[last]]]
               /\ last_call' = [op |-> "analyze_publication_trends",
                                status |-> "returned"]
       /\ publications' = pubs
       /\ UNCHANGED <<keywords, set_order, temporal_data, keyword_trends,
                      temporal_patterns, lifecycle_analysis>>
       /\ UNCHANGED <<time_periods, comparative_analysis, exported>>
       /\ UNCHANGED <<downloader_vars, api_vars>>

analyze_publication_trends == analyze_publication_trends_call(publications)

-----------------------------------------------------------------------------
(* Export *)

\* The Python types of the dict keys of the stored results.  Every key is a
\* str literal or f-string, except the keys of 'monthly_data', which
\* monthly_counts.to_dict() takes from the PeriodIndex of the series.
TrendKeyTypes(result) ==
    {"str"} \cup {"Period" : j \in 1..Len(result.monthly_data)}

\* The keys of publication_trends are str literals, str(k) of the months, and
\* the Python ints that to_dict() yields for the years and month numbers.
KeyTypes(results) ==
    (IF results.publication_trends.empty THEN {"str"} ELSE {"str", "int"})
    \cup (IF results.keyword_trends.empty THEN {"str"}
          ELSE {"str"} \cup
               UNION {TrendKeyTypes(results.keyword_trends.individual_trends[j]) :
                         j \in 1..Len(results.keyword_trends.individual_trends)})

\* The Python types of the leaf values of the stored results.  numpy.float64
\* is a subclass of float and is listed as float; 'peak_count' is the
\* numpy.int64 of monthly_counts.max(), the 'date' of a trend change is the
\* Period series.index[i].
TrendLeafTypes(result) == {"str", "int", "float", "numpy.int64"}

PatternLeafTypes(pattern) ==
    {"str", "int", "float", "bool", "NoneType"}
        \cup {"Period" : j \in 1..Len(pattern.trend_changes)}

LeafTypes(results) ==
    (IF results.keyword_trends.empty THEN {}
     ELSE UNION {TrendLeafTypes(results.keyword_trends.individual_trends[j]) :
                    j \in 1..Len(results.keyword_trends.individual_trends)})
    \cup (IF results.temporal_patterns.empty THEN {}
          ELSE UNION {PatternLeafTypes(results.temporal_patterns.keyword_patterns[j]) :
                         j \in 1..Len(results.temporal_patterns.keyword_patterns)})
    \cup (IF results.lifecycle_analysis.empty THEN {}
          ELSE {"str", "int", "float"})
    \cup (IF results.comparative_analysis.empty THEN {}
          ELSE {"str", "int", "float"}
                   \cup {"numpy.bool_" :
                            j \in 1..Len(results.comparative_analysis
                                             .statistical_tests.pairwise)})

\* the key types json.dump accepts; `default` is not applied to keys
JsonKeyTypes == {"str", "int", "float", "bool", "NoneType"}

\* json.dump(float) followed by json.load: repr round-trips every finite
\* double, nan is written as NaN and read back as nan
JsonRoundTrip(q) == IF q.nan THEN NaN ELSE Rat(q.num, q.den)

\* the per-keyword trend numbers of a file that was written completely
ExportedTrends(results) ==
    IF results.keyword_trends.empty THEN <<>>
    ELSE [j \in 1..Len(results.keyword_trends.individual_trends) |->
             LET r == results.keyword_trends.individual_trends[j]
             IN [keyword     |-> r.keyword,
                 trend_slope |-> JsonRoundTrip(r.trend_slope),
                 r_squared   |-> JsonRoundTrip(r.r_squared),
                 p_value     |-> r.p_value]]

\* json.dump writes what it has encoded so far and raises TypeError at the
\* first dict key that is not str, int, float, bool or None
json_dump(results) ==
    IF KeyTypes(results) \subseteq JsonKeyTypes
    THEN [raised |-> FALSE,
          file |-> [written |-> "complete", keyword_trends |-> ExportedTrends(results),
                    results |-> results]]
    ELSE [raised |-> TRUE, file |-> [written |-> "partial"]]

\* export_temporal_analysis(output_path, format='json')
export_temporal_analysis ==
    LET analysis_results ==
            [keyword_trends       |-> keyword_trends,
             publication_trends   |-> publication_trends,
             temporal_patterns    |-> temporal_patterns,
             lifecycle_analysis   |-> lifecycle_analysis,
             comparative_analysis |-> comparative_analysis]
        dumped == json_dump(analysis_results)
    IN /\ exported' = dumped.file
       /\ last_call' = [op |-> "export_temporal_analysis",
                        status |-> IF dumped.raised THEN "raised" ELSE "returned"]
       /\ UNCHANGED <<publications, keywords, set_order, time_periods, pub_dates,
                      temporal_data, keyword_trends, temporal_patterns,
                      lifecycle_analysis, comparative_analysis>>
       /\ UNCHANGED <<publication_trends, downloader_vars, api_vars>>

-----------------------------------------------------------------------------
(* Springer Nature XML downloader (src/app/sn_xml_downloader.py) *)

DAILY_REQUEST_LIMIT == 495

\* the downloader calls explored in one behaviour
MaxCalls == 3

\* the days date.today() runs through
MaxDay == 2

Dois == {"10.1/a", "10.1/b"}

\* record.get("doi") of a record without DOI
NoDoi == ""

None == [value |-> "None"]

True == [value |-> "True"]

\* the path client.download_xml returns for a DOI
XmlPath(doi) == [value |-> "xml_path", doi |-> doi]

\* What is known of a downloader call once it ended: `result` is what
\* download_xml_full_text or check_article_existence returned, `filepaths`
\* what advanced_query_download returned, `requests` the DOIs the client
\* was asked for (article_exists, download_xml), `queried` whether
\* client.advanced_query was called.
Download(op, doi, result, requests) ==
    [op |-> op, doi |-> doi, records |-> <<>>, raised |-> FALSE,
     result |-> result, filepaths |-> <<>>, requests |-> requests,
     queried |-> FALSE]

Query(records, raised, filepaths, requests, queried) ==
    [op |-> "advanced_query_download", doi |-> NoDoi, records |-> records,
     raised |-> raised, result |-> None, filepaths |-> filepaths,
     requests |-> requests, queried |-> queried]

\* What the Open Access client does with one download_xml call: it writes
\* the file and returns its path, returns None, or raises.
DownloadOutcomes == {"path", "none", "raises"}

\* In download_xml_full_text and check_article_existence the client is
\* constructed inside the try block, after the request was counted: the
\* constructor may raise before any request is issued.
ClientOutcomes == DownloadOutcomes \cup {"no_client"}

_load_daily_request_count(file, day) ==
    IF file.date = day THEN file.count ELSE 0

_save_daily_request_count(count, day) == [date |-> day, count |-> count]

_increment_daily_request_count(file, day) ==
    LET count == _load_daily_request_count(file, day)
    IN IF count >= DAILY_REQUEST_LIMIT
       THEN [raised |-> TRUE, file |-> file]
       ELSE [raised |-> FALSE, file |-> _save_daily_request_count(count + 1, day)]

_update_downloaded_articles_tracking(doi, tracking) == tracking \cup {doi}

\* A variant that never finds a DOI in the tracking.
is_article_downloaded_never(doi, tracking) == FALSE

is_article_downloaded(doi, tracking) == doi \in tracking

\* The files and the log a downloader call works on.
DownloaderState ==
    [tracking |-> downloaded_articles, file |-> daily_request_count,
     written |-> download_count, requests |-> <<>>]

\* The try block shared by download_xml_full_text and the loop body of
\* advanced_query_download: count the request, ask the client, record the
\* DOI when a path came back.
TryDownload(doi, outcome, st) ==
    LET inc == _increment_daily_request_count(st.file, today)
    IN IF inc.raised THEN [status |-> "error", st |-> st]
       ELSE IF outcome = "no_client"
       THEN [status |-> "error", st |-> [st EXCEPT !.file = inc.file]]
       ELSE LET asked == [st EXCEPT !.file = inc.file,
                                    !.requests = Append(@, doi)]
            IN CASE outcome = "raises" -> [status |-> "error", st |-> asked]
                 [] outcome = "none"   -> [status |-> "not_found", st |-> asked]
                 [] outcome = "path"   ->
                        [status |-> "success",
                         st |-> [asked EXCEPT
                                    !.tracking =
                                        _update_downloaded_articles_tracking(doi, @),
                                    !.written[doi] = Min(@ + 1, 2)]]

download_xml_full_text ==
    \E doi \in Dois, outcome \in ClientOutcomes :
        /\ calls < MaxCalls
        /\ calls' = calls + 1
        /\ IF is_article_downloaded(doi, downloaded_articles)
           THEN /\ last_download' = Download("download_xml_full_text", doi, None, <<>>)
                /\ UNCHANGED <<downloaded_articles, daily_request_count, download_count>>
           ELSE LET try == TryDownload(doi, outcome, DownloaderState)
                IN /\ downloaded_articles' = try.st.tracking
                   /\ daily_request_count' = try.st.file
                   /\ download_count' = try.st.written
                   /\ last_download' =
                          Download("download_xml_full_text", doi,
                                   IF try.status = "success" THEN XmlPath(doi) ELSE None,
                                   try.st.requests)
        /\ UNCHANGED today
        /\ UNCHANGED <<publications, keywords, set_order, pub_dates, temporal_data,
                       keyword_trends, temporal_patterns, lifecycle_analysis, last_call,
                       time_periods, comparative_analysis, exported,
                   publication_trends, api_vars>>

\* the `for record in iterator` loop from record i on; `filepaths` is the
\* list built so far
RECURSIVE DownloadRecords(_, _, _, _, _)
DownloadRecords(records, outcomes, i, filepaths, st) ==
    IF i > Len(records) THEN [filepaths |-> filepaths, st |-> st]
    ELSE LET doi == records[i]
         IN IF doi = NoDoi \/ is_article_downloaded(doi, st.tracking)
            THEN DownloadRecords(records, outcomes, i + 1, filepaths, st)
            ELSE LET try == TryDownload(doi, outcomes[i], st)
                 IN DownloadRecords(records, outcomes, i + 1,
                        Append(filepaths,
                               [doi |-> doi, status |-> try.status,
                                xml_path |-> IF try.status = "success"
                                             THEN XmlPath(doi) ELSE None]),
                        try.st)

\* the result lists client.advanced_query returns, as the DOI of each record
RecordLists ==
    { <<>>, <<"10.1/a", "10.1/a">>, <<"10.1/a", "10.1/b">>, <<NoDoi, "10.1/b">> }

advanced_query_download ==
    /\ calls < MaxCalls
    /\ calls' = calls + 1
    /\ \/ \E records \in RecordLists :
             \E outcomes \in [1..Len(records) -> DownloadOutcomes] :
                 LET done == DownloadRecords(records, outcomes, 1, <<>>, DownloaderState)
                 IN /\ downloaded_articles' = done.st.tracking
                    /\ daily_request_count' = done.st.file
                    /\ download_count' = done.st.written
                    /\ last_download' =
                           Query(records, FALSE, done.filepaths, done.st.requests, TRUE)
       \* the client constructor raises, or client.advanced_query does
       \/ /\ \E queried \in BOOLEAN :
                 last_download' = Query(<<>>, TRUE, <<>>, <<>>, queried)
          /\ UNCHANGED <<downloaded_articles, daily_request_count, download_count>>
    /\ UNCHANGED today
    /\ UNCHANGED <<publications, keywords, set_order, pub_dates, temporal_data,
                   keyword_trends, temporal_patterns, lifecycle_analysis, last_call,
                   time_periods, comparative_analysis, exported,
                   publication_trends, api_vars>>

\* client.article_exists(doi): the article is found, is not found, or the
\* call (or the constructor before it) raises
check_article_existence ==
    \E doi \in Dois, exists \in {"true", "false", "raises", "no_client"} :
        LET inc == _increment_daily_request_count(daily_request_count, today)
        IN /\ calls < MaxCalls
           /\ calls' = calls + 1
           /\ daily_request_count' = inc.file
           /\ last_download' =
                  Download("check_article_existence", doi,
                           IF ~inc.raised /\ exists = "true" THEN True ELSE None,
                           IF inc.raised \/ exists = "no_client" THEN <<>> ELSE <<doi>>)
           /\ UNCHANGED <<downloaded_articles, download_count, today>>
           /\ UNCHANGED <<publications, keywords, set_order, pub_dates, temporal_data,
                          keyword_trends, temporal_patterns, lifecycle_analysis,
                          last_call, time_periods, comparative_analysis, exported,
                   publication_trends, api_vars>>

\* midnight: date.today() changes between two calls
next_day ==
    /\ today < MaxDay
    /\ today' = today + 1
    /\ UNCHANGED <<downloaded_articles, daily_request_count, download_count,
                   last_download, calls>>
    /\ UNCHANGED <<publications, keywords, set_order, pub_dates, temporal_data,
                   keyword_trends, temporal_patterns, lifecycle_analysis, last_call,
                   time_periods, comparative_analysis, exported,
                   publication_trends, api_vars>>

-----------------------------------------------------------------------------
(* Configuration and files *)

\* self.time_periods: the named periods in the insertion order of the dict
Period(name, start, end) == [name |-> name, start |-> start, end |-> end]

-----------------------------------------------------------------------------
(* slr_core/api_clients.py: make_request_with_retry *)

\* the largest max_retries of a call
MaxRetries == 4

\* What one requests.request(...) / raise_for_status() / response.json()
\* round can do.  "ok": a response whose status is not an error and whose
\* body parses.  "http_error": raise_for_status() raises HTTPError.
\* "connection_error": requests.request raises ConnectionError or Timeout.
\* A body that is not JSON makes response.json() raise; which exception
\* depends on the installed requests: requests.exceptions.JSONDecodeError
\* (a RequestException) or the json module's ValueError.
RequestOutcomes ==
    {"ok", "http_error", "connection_error", "json_request_exception",
     "json_value_error"}

\* the outcomes `except requests.exceptions.RequestException` catches
RequestExceptions == {"http_error", "connection_error", "json_request_exception"}

Event(kind, outcome) == [kind |-> kind, outcome |-> outcome]

Request(max_retries, log, status, result) ==
    [max_retries |-> max_retries, log |-> log, status |-> status, result |-> result]

\* `if attempt < max_retries - 1` with the sleep taken on every failure
sleeps_before_next_always(attempt, max_retries) == TRUE

\* `if attempt < max_retries - 1`: time.sleep(delay_seconds), else: raise
sleeps_before_next(attempt, max_retries) == attempt < max_retries - 1

\* `for attempt in range(max_retries)` from `attempt` on; `log` is what the
\* call has sent and slept so far, `outcomes` what each round will meet
RECURSIVE retry_loop(_, _, _, _)
retry_loop(max_retries, outcomes, attempt, log) ==
    IF attempt >= max_retries
    THEN Request(max_retries, log, "returned", "None")
    ELSE LET outcome == outcomes[attempt + 1]
             sent == Append(log, Event("request", outcome))
         IN IF outcome = "ok"
            THEN Request(max_retries, sent, "returned", "json")
            ELSE IF outcome \in RequestExceptions
                 THEN IF sleeps_before_next(attempt, max_retries)
                      THEN retry_loop(max_retries, outcomes, attempt + 1,
                                      Append(sent, Event("sleep", "none")))
                      ELSE Request(max_retries, sent, "raised", outcome)
                 ELSE Request(max_retries, sent, "raised", outcome)

make_request_with_retry ==
    \E max_retries \in 1..MaxRetries :
      \E outcomes \in [1..max_retries -> RequestOutcomes] :
        /\ last_request' = retry_loop(max_retries, outcomes, 0, <<>>)
        /\ UNCHANGED <<publications, keywords, set_order, pub_dates, temporal_data,
                       keyword_trends, temporal_patterns, lifecycle_analysis,
                       last_call, time_periods, comparative_analysis, exported,
                       publication_trends, downloader_vars>>

\* the default of temporal_config.get('time_periods', ...)
DefaultTimePeriods ==
    << Period("early", 2010, 2015), Period("middle", 2016, 2020),
       Period("recent", 2021, 2025) >>

\* no file at output_path
NoFile == [written |-> "nothing"]

\* no downloader call made: no tracking file, no request-count file
NoCountFile == [date |-> 0, count |-> 0]

NoDownload == Download("none", NoDoi, None, <<>>)

DownloaderAtRest ==
    /\ downloaded_articles = {}
    /\ daily_request_count = NoCountFile
    /\ today = 1
    /\ download_count = [d \in Dois |-> 0]
    /\ last_download = NoDownload
    /\ calls = 0

\* make_request_with_retry not called yet
NoRequest == [max_retries |-> 0, log |-> <<>>, status |-> "none", result |-> "none"]

ApiAtRest == last_request = NoRequest

-----------------------------------------------------------------------------
(* Inputs *)

Pub(pd, pbd, d, yr, kws, text) ==
    [publication_date |-> pd, published_date |-> pbd, date |-> d, year |-> yr,
     keywords |-> kws, text |-> text]

\* The publications the corpus is drawn from.
PubInputs ==
    << Pub(Iso(2020, 1), Absent, Absent, Absent, <<"ai">>, {}),
       Pub(Iso(2020, 2), Absent, Absent, IntYear(2020), <<"ai", "ml">>, {}),
       Pub(Absent, Iso(2020, 4), Absent, Absent, <<"ai", "ai">>, {"ai"}),
       Pub(Absent, Absent, Absent, IntYear(2021), <<"ml">>, {"ai"}),
       Pub(Absent, Absent, Absent, Absent, <<"ai", "ml">>, {}),
       Pub(Junk, Absent, Absent, Digits(2020), <<"ml">>, {"ml"}),
       Pub(Absent, Absent, IntYear(2020), Absent, <<"ai">>, {}),
       Pub(FreeText(2020), Absent, Absent, Absent, <<"ai">>, {}) >>

\* Corpora of at most MaxPubs publications taken from the given positions
\* of PubInputs, listed in the order of PubInputs.
PubListsOver(positions) ==
    LET idx == UNION {[1..n -> positions] : n \in 0..MaxPubs}
        sorted == {s \in idx : \A i \in 1..(Len(s) - 1) : s[i] <= s[i + 1]}
    IN {[i \in 1..Len(s) |-> PubInputs[s[i]]] : s \in sorted}

PubLists == PubListsOver(1..Len(PubInputs))

\* The publications whose first date field is an ISO date, or whose only
\* usable field is `year`: the formats the repository's own callers use.
PlainlyDated == {1, 2, 3, 4, 6}

Vocabularies == {<<>>, <<"ai", "AI">>}

SetOrders == {<<"ai", "AI", "ml", "nlp", "cv">>, <<"cv", "nlp", "ml", "AI", "ai">>}

Init ==
    /\ publications \in PubLists
    /\ keywords \in Vocabularies
    /\ set_order \in SetOrders
    /\ pub_dates = <<>>
    /\ temporal_data = EmptyTemporalData
    /\ keyword_trends = EmptyDict
    /\ temporal_patterns = EmptyDict
    /\ lifecycle_analysis = EmptyDict
    /\ last_call = [op |-> "none", status |-> "returned"]
    /\ time_periods = DefaultTimePeriods
    /\ comparative_analysis = EmptyDict
    /\ publication_trends = EmptyDict
    /\ exported = NoFile
    /\ DownloaderAtRest
    /\ ApiAtRest

Next ==
    \/ analyze_keyword_trends
    \/ detect_temporal_patterns
    \/ analyze_keyword_lifecycle

Spec == Init /\ [][Next]_vars

\* The same analyzer on corpora of plainly dated publications only.
InitDated ==
    /\ Init
    /\ publications \in PubListsOver(PlainlyDated)

SpecDated == InitDated /\ [][Next]_vars

\* The same analyzer on corpora that give one keyword a chosen monthly
\* series: y[j] publications in the j-th month from 2020-01 on, each with
\* keywords ['ai'].
SeriesPub(j) ==
    Pub(Iso(2020 + ((j - 1) \div 12), ((j - 1) % 12) + 1), Absent, Absent, Absent,
        <<"ai">>, {})

CorpusOf(y) ==
    Flatten([j \in 1..Len(y) |-> [l \in 1..y[j] |-> SeriesPub(j)]])

SeriesInputs == UNION {[1..n -> 1..MaxCount] : n \in 1..MaxMonths}

InitSeries ==
    /\ publications \in {CorpusOf(y) : y \in SeriesInputs}
    /\ keywords = <<>>
    /\ set_order = <<"ai", "AI", "ml", "nlp", "cv">>
    /\ pub_dates = <<>>
    /\ temporal_data = EmptyTemporalData
    /\ keyword_trends = EmptyDict
    /\ temporal_patterns = EmptyDict
    /\ lifecycle_analysis = EmptyDict
    /\ last_call = [op |-> "none", status |-> "returned"]
    /\ time_periods = DefaultTimePeriods
    /\ comparative_analysis = EmptyDict
    /\ publication_trends = EmptyDict
    /\ exported = NoFile
    /\ DownloaderAtRest
    /\ ApiAtRest

SpecSeries == InitSeries /\ [][Next]_vars

\* The analyzer configured with 0 to 3 named periods, comparing corpora whose
\* publications carry up to five keywords.
ComparePubInputs ==
    << Pub(Iso(2012, 3), Absent, Absent, Absent, <<"ai", "ml", "nlp", "cv", "AI">>, {}),
       Pub(Iso(2018, 6), Absent, Absent, Absent, <<"ai", "ml", "nlp", "cv", "AI">>, {}),
       Pub(Iso(2018, 7), Absent, Absent, Absent, <<"ai", "ml">>, {}),
       Pub(Iso(2022, 1), Absent, Absent, Absent, <<"ai", "ai">>, {}),
       Pub(Iso(2012, 5), Absent, Absent, Absent, <<"ml", "cv">>, {}),
       Pub(Absent, Absent, Absent, Absent, <<"ai", "nlp">>, {}),
       Pub(Absent, Absent, Absent, IntYear(2015), <<"nlp">>, {}),
       Pub(Iso(2016, 1), Absent, Absent, Absent, <<"cv">>, {}),
       Pub(Iso(2019, 1), Absent, Absent, Absent, <<"ai", "ml", "nlp", "cv">>, {}) >>

ComparePubLists ==
    LET idx == UNION {[1..n -> 1..Len(ComparePubInputs)] : n \in 0..MaxPubs}
        sorted == {s \in idx : \A i \in 1..(Len(s) - 1) : s[i] <= s[i + 1]}
    IN {[i \in 1..Len(s) |-> ComparePubInputs[s[i]]] : s \in sorted}

TimePeriodConfigs ==
    { <<>>,
      <<Period("early", 2010, 2015)>>,
      <<Period("early", 2010, 2015), Period("middle", 2016, 2020)>>,
      DefaultTimePeriods }

InitCompare ==
    /\ publications \in ComparePubLists
    /\ keywords = <<>>
    /\ set_order = <<"ai", "AI", "ml", "nlp", "cv">>
    /\ time_periods \in TimePeriodConfigs
    /\ pub_dates = <<>>
    /\ temporal_data = EmptyTemporalData
    /\ keyword_trends = EmptyDict
    /\ temporal_patterns = EmptyDict
    /\ lifecycle_analysis = EmptyDict
    /\ comparative_analysis = EmptyDict
    /\ publication_trends = EmptyDict
    /\ exported = NoFile
    /\ DownloaderAtRest
    /\ ApiAtRest
    /\ last_call = [op |-> "none", status |-> "returned"]

NextCompare == compare_time_periods

SpecCompare == InitCompare /\ [][NextCompare]_vars

\* Any sequence of the analysis calls and of exports, on the corpora of
\* SpecSeries.
NextExport ==
    \/ analyze_keyword_trends
    \/ detect_temporal_patterns
    \/ analyze_keyword_lifecycle
    \/ compare_time_periods
    \/ export_temporal_analysis

SpecExport == InitSeries /\ [][NextExport]_vars

\* One freshly constructed analyzer with the default periods, called any
\* number of times, each call with a corpus of its own: a two-month corpus,
\* a six-month corpus, a corpus spread over the three periods, or no
\* publication at all.
SequenceInputs ==
    { <<PubInputs[1], PubInputs[1], PubInputs[2]>>,
      CorpusOf(<<1, 2, 1, 1, 1, 1>>),
      <<ComparePubInputs[1], ComparePubInputs[2], ComparePubInputs[9]>>,
      <<>> }

InitSequence ==
    /\ publications = <<>>
    /\ keywords = <<>>
    /\ set_order \in SetOrders
    /\ pub_dates = <<>>
    /\ temporal_data = EmptyTemporalData
    /\ keyword_trends = EmptyDict
    /\ temporal_patterns = EmptyDict
    /\ lifecycle_analysis = EmptyDict
    /\ last_call = [op |-> "none", status |-> "returned"]
    /\ time_periods = DefaultTimePeriods
    /\ comparative_analysis = EmptyDict
    /\ publication_trends = EmptyDict
    /\ exported = NoFile
    /\ DownloaderAtRest
    /\ ApiAtRest

NextSequence ==
    \E pubs \in SequenceInputs :
        \/ analyze_keyword_trends_call(pubs, <<>>)
        \/ detect_temporal_patterns_call(pubs, <<>>)
        \/ analyze_keyword_lifecycle_call(pubs, <<>>)
        \/ compare_time_periods_call(pubs, <<>>)

SpecSequence == InitSequence /\ [][NextSequence]_vars

\* The downloader started any number of times on the same day and the next,
\* on files left by earlier runs: no request-count file, or a count of
\* today close to the limit; no DOI recorded yet.
StoredCounts ==
    {NoCountFile} \cup
    {[date |-> 1, count |-> c] : c \in (DAILY_REQUEST_LIMIT - 2)..DAILY_REQUEST_LIMIT}

InitDownloader ==
    /\ publications = <<>>
    /\ keywords = <<>>
    /\ set_order = <<"ai", "AI", "ml", "nlp", "cv">>
    /\ pub_dates = <<>>
    /\ temporal_data = EmptyTemporalData
    /\ keyword_trends = EmptyDict
    /\ temporal_patterns = EmptyDict
    /\ lifecycle_analysis = EmptyDict
    /\ last_call = [op |-> "none", status |-> "returned"]
    /\ time_periods = DefaultTimePeriods
    /\ comparative_analysis = EmptyDict
    /\ publication_trends = EmptyDict
    /\ exported = NoFile
    /\ downloaded_articles = {}
    /\ daily_request_count \in StoredCounts
    /\ today = 1
    /\ download_count = [d \in Dois |-> 0]
    /\ last_download = NoDownload
    /\ calls = 0
    /\ ApiAtRest

NextDownloader ==
    \/ download_xml_full_text
    \/ advanced_query_download
    \/ check_article_existence
    \/ next_day

SpecDownloader == InitDownloader /\ [][NextDownloader]_vars

\* The analyzer on corpora that give 'ai' a series of fourteen months, long
\* enough for six candidate trend-change indices (window 4, indices 4..9):
\* a series that falls, stays flat and rises, with one more publication in
\* any of seven of its months.
LongSeriesBase == <<2, 2, 1, 1, 1, 1, 1, 1, 1, 3, 2, 3, 4, 1>>

LongSeriesInputs ==
    {[j \in 1..Len(LongSeriesBase) |-> LongSeriesBase[j] + IF j \in more THEN 1 ELSE 0] :
        more \in SUBSET {1, 2, 3, 10, 12, 13, 14}}

InitLongSeries ==
    /\ publications \in {CorpusOf(y) : y \in LongSeriesInputs}
    /\ keywords = <<>>
    /\ set_order = <<"ai", "AI", "ml", "nlp", "cv">>
    /\ pub_dates = <<>>
    /\ temporal_data = EmptyTemporalData
    /\ keyword_trends = EmptyDict
    /\ temporal_patterns = EmptyDict
    /\ lifecycle_analysis = EmptyDict
    /\ last_call = [op |-> "none", status |-> "returned"]
    /\ time_periods = DefaultTimePeriods
    /\ comparative_analysis = EmptyDict
    /\ publication_trends = EmptyDict
    /\ exported = NoFile
    /\ DownloaderAtRest
    /\ ApiAtRest

NextLongSeries == detect_temporal_patterns

SpecLongSeries == InitLongSeries /\ [][NextLongSeries]_vars

\* The analyzer on corpora that give 'ai' a series of twenty-one months, the
\* shortest for which len // 3 exceeds 6: two publications in the first
\* month, one in every other, with one more publication in any of seven of
\* the months.
WideSeriesBase == <<2, 1, 1, 1, 1, 1, 1, 1, 1, 1, 1, 1, 1, 1, 1, 1, 1, 1, 1, 1, 1>>

WideSeriesInputs ==
    {[j \in 1..Len(WideSeriesBase) |-> WideSeriesBase[j] + IF j \in more THEN 1 ELSE 0] :
        more \in SUBSET {4, 8, 11, 13, 15, 19, 21}}

InitWideSeries ==
    /\ publications \in {CorpusOf(y) : y \in WideSeriesInputs}
    /\ keywords = <<>>
    /\ set_order = <<"ai", "AI", "ml", "nlp", "cv">>
    /\ pub_dates = <<>>
    /\ temporal_data = EmptyTemporalData
    /\ keyword_trends = EmptyDict
    /\ temporal_patterns = EmptyDict
    /\ lifecycle_analysis = EmptyDict
    /\ last_call = [op |-> "none", status |-> "returned"]
    /\ time_periods = DefaultTimePeriods
    /\ comparative_analysis = EmptyDict
    /\ publication_trends = EmptyDict
    /\ exported = NoFile
    /\ DownloaderAtRest
    /\ ApiAtRest

NextWideSeries == detect_temporal_patterns

SpecWideSeries == InitWideSeries /\ [][NextWideSeries]_vars

\* The API clients alone: the analyzer and the downloader are not used.
InitRetry ==
    /\ InitDownloader
    /\ daily_request_count = NoCountFile

NextRetry == make_request_with_retry

SpecRetry == InitRetry /\ [][NextRetry]_vars

\* A keyword used over ten consecutive months, about once a month: the
\* series 1,2,1,1,2,1,1,1,1,2 has slope 5/825, and its variations with one
\* more publication in some months have larger slopes of either sign.
FlatSeriesBase == <<1, 2, 1, 1, 2, 1, 1, 1, 1, 2>>

FlatSeriesInputs ==
    {[j \in 1..Len(FlatSeriesBase) |-> FlatSeriesBase[j] + IF j \in more THEN 1 ELSE 0] :
        more \in SUBSET {1, 3, 4, 6, 8, 9, 10}}

InitFlatSeries ==
    /\ publications \in {CorpusOf(y) : y \in FlatSeriesInputs}
    /\ keywords = <<>>
    /\ set_order = <<"ai", "AI", "ml", "nlp", "cv">>
    /\ pub_dates = <<>>
    /\ temporal_data = EmptyTemporalData
    /\ keyword_trends = EmptyDict
    /\ temporal_patterns = EmptyDict
    /\ lifecycle_analysis = EmptyDict
    /\ last_call = [op |-> "none", status |-> "returned"]
    /\ time_periods = DefaultTimePeriods
    /\ comparative_analysis = EmptyDict
    /\ publication_trends = EmptyDict
    /\ exported = NoFile
    /\ DownloaderAtRest
    /\ ApiAtRest

NextFlatSeries == analyze_keyword_trends

SpecFlatSeries == InitFlatSeries /\ [][NextFlatSeries]_vars

\* One analyzer on which the five analysis methods are called in any order,
\* each call with a corpus of its own (a two-month corpus, a six-month
\* corpus, or a publication without any date), and whose results the
\* caller then exports as JSON.
FrameInputs ==
    { <<PubInputs[1], PubInputs[1], PubInputs[2]>>,
      CorpusOf(<<1, 2, 1, 1, 1, 1>>),
      <<PubInputs[5]>> }

InitFrame ==
    /\ InitSequence
    /\ set_order = <<"ai", "AI", "ml", "nlp", "cv">>

NextFrame ==
    \/ /\ exported = NoFile
       /\ \E pubs \in FrameInputs :
             \/ analyze_keyword_trends_call(pubs, <<>>)
             \/ analyze_publication_trends_call(pubs)
             \/ detect_temporal_patterns_call(pubs, <<>>)
             \/ analyze_keyword_lifecycle_call(pubs, <<>>)
             \/ compare_time_periods_call(pubs, <<>>)
    \/ export_temporal_analysis

SpecFrame == InitFrame /\ [][NextFrame]_vars

-----------------------------------------------------------------------------
(* Vocabulary of the properties *)

Called == last_call.op # "none"

PubIds == 1..Len(publications)

\* publication i lists keyword k, or k is a vocabulary keyword found in its text
Carries(i, k) ==
    \/ k \in Range(publications[i].keywords)
    \/ k \in Range(keywords) /\ Lower(k) \in publications[i].text

\* publication i resolved to a date in the last call
Dated(i) == pub_dates[i] # NoDate

\* keyword occurrences: (keyword, publication) associations with a resolved date
OccurrenceCount(k) == Cardinality({i \in PubIds : Dated(i) /\ Carries(i, k)})

ExpectedKeys == {k \in Strings : OccurrenceCount(k) >= min_occurrences}

Trends == IF keyword_trends.empty THEN <<>> ELSE keyword_trends.individual_trends

Patterns == IF temporal_patterns.empty THEN <<>> ELSE temporal_patterns.keyword_patterns

Lifecycles ==
    IF lifecycle_analysis.empty THEN <<>> ELSE lifecycle_analysis.individual_lifecycles

KeysOf(results) == {results[j].keyword : j \in 1..Len(results)}

RecordsOf(k, i) == {j \in 1..Len(temporal_data.data[k]) : temporal_data.data[k][j].pub = i}

\* the months of keyword k's occurrences, from the publications themselves
OccurrenceMonths(k) == {MonthIdx(pub_dates[i]) : i \in {i \in PubIds : Dated(i) /\ Carries(i, k)}}

FirstMonth(k) == CHOOSE a \in OccurrenceMonths(k) : \A b \in OccurrenceMonths(k) : a <= b

LastMonth(k) == CHOOSE a \in OccurrenceMonths(k) : \A b \in OccurrenceMonths(k) : a >= b

Flat(series) == \A j \in 1..Len(series) : series[j].count = series[1].count

Listed(list) == IF keyword_trends.empty THEN {} ELSE KeysOf(list)

-----------------------------------------------------------------------------
(* Properties *)

\* C1: after analyze_keyword_trends, detect_temporal_patterns and
\* analyze_keyword_lifecycle, the key set of individual_trends,
\* keyword_patterns and individual_lifecycles is exactly the set of keywords
\* with at least min_occurrences occurrences.
C1_KeySetsAreTheFrequentKeywords ==
    /\ last_call.op = "analyze_keyword_trends" => KeysOf(Trends) = ExpectedKeys
    /\ last_call.op = "detect_temporal_patterns" => KeysOf(Patterns) = ExpectedKeys
    /\ last_call.op = "analyze_keyword_lifecycle" => KeysOf(Lifecycles) = ExpectedKeys

\* The part of C1 that the code satisfies: the gate of the two calls that
\* do not aggregate cycle results.
TrendAndLifecycleKeysAreTheFrequentKeywords ==
    /\ last_call.op = "analyze_keyword_trends" => KeysOf(Trends) = ExpectedKeys
    /\ last_call.op = "analyze_keyword_lifecycle" => KeysOf(Lifecycles) = ExpectedKeys

\* C2: the monthly series of every analyzed keyword has one entry for every
\* calendar month from its first to its last occurrence, with counts >= 0.
C2_SeriesCoversEveryMonth ==
    /\ \A j \in 1..Len(Trends) :
          LET r == Trends[j]
          IN /\ Len(r.monthly_data) = LastMonth(r.keyword) - FirstMonth(r.keyword) + 1
             /\ \A l \in 1..Len(r.monthly_data) :
                   /\ r.monthly_data[l].period = FirstMonth(r.keyword) + l - 1
                   /\ r.monthly_data[l].count >= 0
    /\ \A j \in 1..Len(Lifecycles) :
          LET r == Lifecycles[j]
          IN r.lifespan_months = LastMonth(r.keyword) - FirstMonth(r.keyword) + 1

\* C3: a series of length 1, or of zero variance, gives trend_slope 0 (not
\* NaN), r_squared 0 and direction 'stable'.
C3_DegenerateSeriesHasZeroSlope ==
    \A j \in 1..Len(Trends) :
        LET r == Trends[j]
        IN (r.time_span_months = 1 \/ Flat(r.monthly_data)) =>
              /\ RatIs0(r.trend_slope)
              /\ RatIs0(r.r_squared)
              /\ r.trend_direction = "stable"

\* C4: none of the three analysis calls aborts: each returns normally and
\* every keyword that meets min_occurrences receives its result.
C4_AnalysisNeverAborts ==
    /\ last_call.status = "returned"
    /\ last_call.op = "analyze_keyword_trends" => ExpectedKeys \subseteq KeysOf(Trends)
    /\ last_call.op = "detect_temporal_patterns" => ExpectedKeys \subseteq KeysOf(Patterns)
    /\ last_call.op = "analyze_keyword_lifecycle" => ExpectedKeys \subseteq KeysOf(Lifecycles)

\* C5: detect_temporal_patterns returns normally when an analyzed keyword's
\* series is too short for a statistic.
C5_ShortSeriesDoNotRaise ==
    last_call.op = "detect_temporal_patterns" =>
        /\ last_call.status = "returned"
        /\ KeysOf(Patterns) = ExpectedKeys

\* a publication none of whose date fields holds anything that names a date
Unparseable(pub) ==
    \A j \in 1..Len(date_fields) : pub[date_fields[j]].kind \in {"absent", "junk"}

\* the years written in the date fields of a publication
CarriedYears(pub) ==
    {pub[date_fields[j]].y :
        j \in {j \in 1..Len(date_fields) :
                  pub[date_fields[j]].kind \in {"int", "digits", "iso", "text"}}}

\* C6: a publication without a parseable date contributes no occurrence
\* record, and the date of every occurrence record lies in a year carried by
\* a date field of its publication.
C6_NoFabricatedDate ==
    Called =>
        \A k \in Strings :
            /\ \A i \in PubIds : Unparseable(publications[i]) => RecordsOf(k, i) = {}
            /\ \A j \in 1..Len(temporal_data.data[k]) :
                  LET rec == temporal_data.data[k][j]
                  IN rec.y \in CarriedYears(publications[rec.pub])

PresentFields(pub) ==
    {j \in 1..Len(date_fields) : pub[date_fields[j]].kind # "absent"}

\* C7: a date field holding a bare year (int or digit string), an ISO date
\* or free text with a 4-digit year resolves to a date in that year (stated
\* for publications with exactly one date field, where the field that
\* decides is not in question).
C7_SupportedFormatsResolveToStatedYear ==
    Called =>
        \A i \in PubIds :
            \A j \in PresentFields(publications[i]) :
                LET v == publications[i][date_fields[j]]
                IN (PresentFields(publications[i]) = {j}
                      /\ v.kind \in {"int", "digits", "iso", "text"})
                   => (Dated(i) /\ pub_dates[i].y = v.y)

\* C8: _prepare_temporal_data emits exactly one occurrence record for every
\* (keyword, dated publication carrying it) pair and none otherwise, however
\* often the publication mentions the keyword.
C8_OneOccurrencePerKeywordAndPublication ==
    Called =>
        \A k \in Strings : \A i \in PubIds :
            Cardinality(RecordsOf(k, i)) = IF Dated(i) /\ Carries(i, k) THEN 1 ELSE 0

\* a dated publication that lists a keyword twice, or lists it and matches
\* it in its text, has been prepared
C8_Witness ==
    /\ Called
    /\ \E i \in PubIds : \E k \in Strings :
          /\ Dated(i)
          /\ Len(SelectSeq(RawPublicationKeywords(publications[i], keywords),
                           LAMBDA s : s = k)) >= 2
          /\ Cardinality(RecordsOf(k, i)) = 1

TrendOf(k) == Trends[CHOOSE j \in 1..Len(Trends) : Trends[j].keyword = k]

\* C9: trend_direction follows the sign of the slope, and the growing
\* (declining) list holds only keywords of positive (negative) slope and
\* p-value < 0.05.
C9_DirectionAndSignificantLists ==
    /\ \A j \in 1..Len(Trends) :
          LET r == Trends[j]
          IN /\ r.trend_direction = "increasing" <=> RatGt0(r.trend_slope)
             /\ r.trend_direction = "decreasing" <=> RatLt0(r.trend_slope)
             /\ r.trend_direction = "stable"
                   <=> ~RatGt0(r.trend_slope) /\ ~RatLt0(r.trend_slope)
    /\ \A k \in Listed(keyword_trends.top_growing_keywords) :
          k \in KeysOf(Trends) /\ RatGt0(TrendOf(k).trend_slope)
                               /\ TrendOf(k).p_value = "<0.05"
    /\ \A k \in Listed(keyword_trends.declining_keywords) :
          k \in KeysOf(Trends) /\ RatLt0(TrendOf(k).trend_slope)
                               /\ TrendOf(k).p_value = "<0.05"

\* one keyword is listed as growing while another rises without significance
\* and is left out
C9_Witness ==
    /\ Listed(keyword_trends.top_growing_keywords) # {}
    /\ \E j \in 1..Len(Trends) :
          /\ Trends[j].trend_direction = "increasing"
          /\ Trends[j].p_value = ">=0.05"
          /\ Trends[j].keyword \notin Listed(keyword_trends.top_growing_keywords)

\* C10: a keyword with the same count in every month of its series and at
\* least 5 occurrences is in stable_keywords and in neither of the other
\* two lists.
C10_FlatSeriesIsStable ==
    \A j \in 1..Len(Trends) :
        LET r == Trends[j]
        IN (Flat(r.monthly_data) /\ r.total_occurrences >= 5) =>
              /\ r.keyword \in Listed(keyword_trends.stable_keywords)
              /\ r.keyword \notin Listed(keyword_trends.top_growing_keywords)
              /\ r.keyword \notin Listed(keyword_trends.declining_keywords)

\* every keyword mention of the input, in publication order and, within a
\* publication, in the order of its keyword list followed by its text matches
Mentions ==
    Flatten([i \in 1..Len(publications) |->
                RawPublicationKeywords(publications[i], keywords)])

FirstSeen(k) == CHOOSE j \in 1..Len(Mentions) :
                    /\ Mentions[j] = k
                    /\ \A l \in 1..(j - 1) : Mentions[l] # k

\* list[a] may stand before list[b]: its metric is strictly better, or the
\* metrics are equal and its keyword was seen first
InStatedOrder(list, metric, a, b) ==
    \/ RatLess(metric[a], metric[b])
    \/ /\ ~RatLess(metric[b], metric[a])
       /\ FirstSeen(list[a].keyword) < FirstSeen(list[b].keyword)

OrderedByMetricThenFirstSeen(list, metric) ==
    \A a \in 1..Len(list) : \A b \in (a + 1)..Len(list) :
        InStatedOrder(list, metric, a, b)

\* C11: top_growing_keywords (slope descending), declining_keywords (slope
\* ascending) and stable_keywords (consistency descending) are ordered by
\* their metric, and entries of equal metric stand in the order in which
\* their keywords were first seen in the input, so that the order is a
\* function of the input alone.
C11_TiesInFirstSeenOrder ==
    ~keyword_trends.empty =>
        /\ LET l == keyword_trends.top_growing_keywords
           IN OrderedByMetricThenFirstSeen(l, [j \in 1..Len(l) |-> RatNeg(l[j].slope)])
        /\ LET l == keyword_trends.declining_keywords
           IN OrderedByMetricThenFirstSeen(l, [j \in 1..Len(l) |-> l[j].slope])
        /\ LET l == keyword_trends.stable_keywords
           IN OrderedByMetricThenFirstSeen(l, [j \in 1..Len(l) |-> l[j].monthly_var])

\* The part of C11 that the code satisfies: the lists are ordered by metric.
ListsAreOrderedByMetric ==
    ~keyword_trends.empty =>
        /\ LET l == keyword_trends.top_growing_keywords
           IN \A a \in 1..Len(l) : \A b \in (a + 1)..Len(l) :
                  ~RatLess(l[a].slope, l[b].slope)
        /\ LET l == keyword_trends.declining_keywords
           IN \A a \in 1..Len(l) : \A b \in (a + 1)..Len(l) :
                  ~RatLess(l[b].slope, l[a].slope)
        /\ LET l == keyword_trends.stable_keywords
           IN \A a \in 1..Len(l) : \A b \in (a + 1)..Len(l) :
                  ~RatLess(l[b].monthly_var, l[a].monthly_var)

\* C12: for every analyzed keyword the phase end-periods do not go back in
\* time, emergence <= growth <= maturity, and usage_at_end does not decrease
\* across the three phases.
C12_PhaseEndsAreMonotonic ==
    \A j \in 1..Len(Lifecycles) :
        LET phases == Lifecycles[j].phases
        IN /\ phases.emergence.end_period <= phases.growth.end_period
           /\ phases.growth.end_period <= phases.maturity.end_period
           /\ phases.emergence.usage_at_end <= phases.growth.usage_at_end
           /\ phases.growth.usage_at_end <= phases.maturity.usage_at_end

\* a lifecycle whose three phases end in three different months
C12_Witness ==
    \E j \in 1..Len(Lifecycles) :
        LET phases == Lifecycles[j].phases
        IN /\ phases.emergence.end_period < phases.growth.end_period
           /\ phases.growth.end_period < phases.maturity.end_period

\* the monthly counts of keyword k over the months in which it occurs, from
\* the publications themselves
SeriesOfKeyword(k) ==
    LET months == SortedSeqOfSet(OccurrenceMonths(k))
    IN [j \in 1..Len(months) |->
           Cardinality({i \in PubIds : /\ Dated(i) /\ Carries(i, k)
                                       /\ MonthIdx(pub_dates[i]) = months[j]})]

PeakOf(y) == CHOOSE c \in Range(y) : \A d \in Range(y) : d <= c

LastThree(y) == y[Len(y) - 2] + y[Len(y) - 1] + y[Len(y)]

\* C13: maturity_index lies in [0, 1]; it is 0 for a series of fewer than 3
\* months, and otherwise the mean of the last 3 monthly counts divided by the
\* peak count, capped at 1.
C13_MaturityIndexIsRecentOverPeak ==
    \A j \in 1..Len(Lifecycles) :
        LET r == Lifecycles[j]
            y == SeriesOfKeyword(r.keyword)
            mi == r.maturity_index
        IN /\ ~mi.nan /\ mi.den > 0
           /\ 0 <= mi.num /\ mi.num <= mi.den
           /\ Len(y) < 3 => mi.num = 0
           /\ Len(y) >= 3 =>
                 IF LastThree(y) >= 3 * PeakOf(y) THEN mi.num = mi.den
                 ELSE mi.num * 3 * PeakOf(y) = LastThree(y) * mi.den

\* a keyword whose peak lies before its last three months has a maturity
\* index strictly between 0 and 1
C13_Witness ==
    /\ \E j \in 1..Len(Lifecycles) :
          /\ Lifecycles[j].lifespan_months >= 4
          /\ Lifecycles[j].peak_position.num = 0
          /\ 0 < Lifecycles[j].maturity_index.num
          /\ Lifecycles[j].maturity_index.num < Lifecycles[j].maturity_index.den

Categories == IF lifecycle_analysis.empty
              THEN [emerging |-> <<>>, growing |-> <<>>, mature |-> <<>>, declining |-> <<>>]
              ELSE lifecycle_analysis.lifecycle_categories

\* growth_rate > a/b, < a/b and |growth_rate| < a/b, on the stored rational
Exceeds(q, a, b) == q.num * b > a * q.den

Under(q, a, b) == q.num * b < a * q.den

\* the four rules of the categorization, on a stored lifecycle result
EmergingRule(r) == r.current_stage = "early_peak" /\ Exceeds(r.growth_rate, 1, 10)

GrowingRule(r) == Exceeds(r.growth_rate, 5, 100) /\ Under(r.maturity_index, 8, 10)

MatureRule(r) ==
    /\ Exceeds(r.maturity_index, 8, 10)
    /\ Under(r.growth_rate, 5, 100) /\ Exceeds(r.growth_rate, -5, 100)

DecliningRule(r) == Under(r.growth_rate, -5, 100) \/ Under(r.maturity_index, 3, 10)

TimesListed(k) ==
    Len(SelectSeq(Categories.emerging \o Categories.growing
                      \o Categories.mature \o Categories.declining,
                  LAMBDA s : s = k))

\* C14: every analyzed keyword is in exactly one of the categories emerging,
\* growing, mature, declining, namely the one of the first rule that matches
\* in the order emerging rule, growing rule, mature rule, declining rule,
\* and mature when none matches.
C14_CategoryIsFirstMatchingRule ==
    \A j \in 1..Len(Lifecycles) :
        LET r == Lifecycles[j]
            k == r.keyword
        IN /\ TimesListed(k) = 1
           /\ k \in Range(Categories.emerging) <=> EmergingRule(r)
           /\ k \in Range(Categories.growing) <=> ~EmergingRule(r) /\ GrowingRule(r)
           /\ k \in Range(Categories.mature) <=>
                 /\ ~EmergingRule(r) /\ ~GrowingRule(r)
                 /\ MatureRule(r) \/ ~DecliningRule(r)
           /\ k \in Range(Categories.declining) <=>
                 /\ ~EmergingRule(r) /\ ~GrowingRule(r)
                 /\ ~MatureRule(r) /\ DecliningRule(r)

\* a keyword that matches both the growing and the declining rule has been
\* categorized as growing
C14_Witness ==
    \E j \in 1..Len(Lifecycles) :
        /\ ~EmergingRule(Lifecycles[j])
        /\ GrowingRule(Lifecycles[j]) /\ DecliningRule(Lifecycles[j])
        /\ Lifecycles[j].keyword \in Range(Categories.growing)

Comparisons ==
    IF comparative_analysis.empty THEN <<>> ELSE comparative_analysis.pairwise_comparisons

\* the stored keyword counts of the period called `name`
PeriodCounts(name) ==
    LET pd == comparative_analysis.period_data
    IN pd[CHOOSE j \in 1..Len(pd) : pd[j].name = name].keywords.count

ChangedKeywords(c, change_type) ==
    {c.keyword_changes[j].keyword :
        j \in {j \in 1..Len(c.keyword_changes) :
                  c.keyword_changes[j].change_type = change_type}}

\* C15: every keyword counted in either period of a comparison has exactly
\* one entry in keyword_changes, classified by its two counts: emerged
\* (ratio 999) for 0 -> positive, disappeared (ratio 0) for positive -> 0,
\* and for two positive counts increased if count2/count1 > 1.2, decreased
\* if < 0.8, else stable; emerging_keywords and disappearing_keywords list
\* the emerged and the disappeared keywords; two periods with the same
\* counts give no emerged or disappeared keyword and only stable ones.
C15_ChangeTypeFollowsCounts ==
    \A l \in 1..Len(Comparisons) :
        LET c == Comparisons[l]
            count1 == PeriodCounts(c.comparison_periods[1])
            count2 == PeriodCounts(c.comparison_periods[2])
            present == {k \in Strings : count1[k] > 0 \/ count2[k] > 0}
        IN /\ \A k \in present :
                 Cardinality({j \in 1..Len(c.keyword_changes) :
                                 c.keyword_changes[j].keyword = k}) = 1
           /\ \A j \in 1..Len(c.keyword_changes) :
                 LET ch == c.keyword_changes[j]
                     c1 == count1[ch.keyword]
                     c2 == count2[ch.keyword]
                 IN /\ ch.keyword \in present
                    /\ c1 = 0 => (ch.change_type = "emerged"
                                    /\ ch.change_ratio = Rat(999, 1))
                    /\ c2 = 0 => (ch.change_type = "disappeared"
                                    /\ ch.change_ratio.num = 0)
                    /\ (c1 > 0 /\ c2 > 0) =>
                          /\ ch.change_ratio.num * c1 = c2 * ch.change_ratio.den
                          /\ ch.change_type =
                                 IF 10 * c2 > 12 * c1 THEN "increased"
                                 ELSE IF 10 * c2 < 8 * c1 THEN "decreased"
                                 ELSE "stable"
           /\ Range(c.emerging_keywords) \subseteq ChangedKeywords(c, "emerged")
           /\ Range(c.disappearing_keywords) \subseteq ChangedKeywords(c, "disappeared")
           /\ Cardinality(present) <= 10 =>
                 /\ Range(c.emerging_keywords) = ChangedKeywords(c, "emerged")
                 /\ Range(c.disappearing_keywords) = ChangedKeywords(c, "disappeared")
           /\ count1 = count2 =>
                 /\ c.emerging_keywords = <<>> /\ c.disappearing_keywords = <<>>
                 /\ ChangedKeywords(c, "stable") = present

\* one comparison in which keywords emerged, disappeared, increased and
\* stayed stable
C15_Witness ==
    \E l \in 1..Len(Comparisons) :
        /\ ChangedKeywords(Comparisons[l], "emerged") # {}
        /\ ChangedKeywords(Comparisons[l], "disappeared") # {}
        /\ ChangedKeywords(Comparisons[l], "increased") # {}
        /\ ChangedKeywords(Comparisons[l], "stable") # {}

\* two periods with the same non-empty keyword counts have been compared
IdenticalPeriodsCompared ==
    \E l \in 1..Len(Comparisons) :
        /\ PeriodCounts(Comparisons[l].comparison_periods[1])
              = PeriodCounts(Comparisons[l].comparison_periods[2])
        /\ Comparisons[l].keyword_changes # <<>>

\* the keywords counted in every configured period
CommonKeywords ==
    {k \in Strings : \A j \in 1..Len(time_periods) :
        PeriodCounts(time_periods[j].name)[k] > 0}

\* C16: compare_time_periods returns normally when fewer than 2 periods are
\* configured or fewer than 5 keywords are common to the periods, and
\* statistical_tests is then an error marker without any test result.
C16_UnmetPreconditionsGiveErrorMarker ==
    last_call.op = "compare_time_periods" =>
        /\ last_call.status = "returned"
        /\ ~comparative_analysis.empty
        /\ (Len(time_periods) < 2 \/ Cardinality(CommonKeywords) < 5) =>
              /\ comparative_analysis.statistical_tests.error # "none"
              /\ comparative_analysis.statistical_tests.pairwise = <<>>
              /\ ~comparative_analysis.statistical_tests.overall_comparison

\* two periods with exactly four common keywords have been compared and the
\* tests were refused
C16_Witness ==
    /\ last_call.op = "compare_time_periods"
    /\ Len(time_periods) >= 2
    /\ Cardinality(CommonKeywords) = 4
    /\ comparative_analysis.statistical_tests.error
          = "Insufficient common keywords for statistical testing"

\* a single configured period has been compared and the tests were refused
SinglePeriodCompared ==
    /\ last_call.op = "compare_time_periods"
    /\ Len(time_periods) = 1
    /\ publications # <<>>
    /\ comparative_analysis.statistical_tests.error
          = "Need at least 2 periods for statistical testing"

\* periods with five common keywords have been compared and tested
FiveCommonKeywordsTested ==
    /\ last_call.op = "compare_time_periods"
    /\ Cardinality(CommonKeywords) = 5
    /\ comparative_analysis.statistical_tests.pairwise # <<>>

StoredResults ==
    [keyword_trends       |-> keyword_trends,
     publication_trends   |-> publication_trends,
     temporal_patterns    |-> temporal_patterns,
     lifecycle_analysis   |-> lifecycle_analysis,
     comparative_analysis |-> comparative_analysis]

PlainTypes == {"str", "int", "float", "bool", "NoneType"}

\* C17: every key and every leaf value of the four stored results is a str,
\* a number, a bool or None, and the JSON export therefore completes and
\* holds, for every keyword, the trend_slope, r_squared and p_value of
\* keyword_trends.
C17_ResultsArePlainAndExportable ==
    /\ KeyTypes(StoredResults) \subseteq PlainTypes
    /\ LeafTypes(StoredResults) \subseteq PlainTypes
    /\ last_call.op = "export_temporal_analysis" =>
          /\ last_call.status = "returned"
          /\ exported.written = "complete"
          /\ Len(exported.keyword_trends) = Len(Trends)
          /\ \A j \in 1..Len(Trends) :
                /\ exported.keyword_trends[j].keyword = Trends[j].keyword
                /\ exported.keyword_trends[j].trend_slope = Trends[j].trend_slope
                /\ ~exported.keyword_trends[j].trend_slope.nan
                /\ exported.keyword_trends[j].r_squared = Trends[j].r_squared
                /\ exported.keyword_trends[j].p_value = Trends[j].p_value

\* The part of C17 that is about the export alone.
ExportCompletes ==
    last_call.op = "export_temporal_analysis" => last_call.status = "returned"

\* The export does complete as long as no keyword has a trend result.
ExportCompletesWithoutTrendResults ==
    (last_call.op = "export_temporal_analysis" /\ Trends = <<>>) =>
        last_call.status = "returned" /\ exported.written = "complete"

\* the number of publications of the latest call that carry keyword k and
\* are dated within the period
CountInPeriod(k, period) ==
    Cardinality({i \in PubIds : /\ Dated(i) /\ Carries(i, k)
                                /\ period.start <= pub_dates[i].y
                                /\ pub_dates[i].y <= period.end})

\* C18: the result returned and stored by the latest analysis call is made
\* of that call's publications alone, whatever calls came before: the keys
\* of the trend, pattern and lifecycle results are the keywords frequent in
\* the latest corpus, their totals and monthly series count the latest
\* publications only, and the period counts of a comparison are those of the
\* latest publications.
C18_ResultsAreRecomputed ==
    (Called /\ last_call.status = "returned") =>
        /\ last_call.op = "analyze_keyword_trends" =>
               /\ ~keyword_trends.empty
               /\ KeysOf(Trends) = ExpectedKeys
               /\ \A j \in 1..Len(Trends) :
                      /\ Trends[j].total_occurrences = OccurrenceCount(Trends[j].keyword)
                      /\ [l \in 1..Len(Trends[j].monthly_data) |->
                              Trends[j].monthly_data[l].count]
                             = SeriesOfKeyword(Trends[j].keyword)
        /\ last_call.op = "analyze_keyword_lifecycle" =>
               /\ ~lifecycle_analysis.empty
               /\ KeysOf(Lifecycles) = ExpectedKeys
               /\ \A j \in 1..Len(Lifecycles) :
                      /\ Lifecycles[j].total_usage = OccurrenceCount(Lifecycles[j].keyword)
                      /\ Lifecycles[j].lifespan_months
                             = Len(SeriesOfKeyword(Lifecycles[j].keyword))
        /\ last_call.op = "detect_temporal_patterns" =>
               /\ ~temporal_patterns.empty
               /\ KeysOf(Patterns) = ExpectedKeys
        /\ last_call.op = "compare_time_periods" =>
               /\ ~comparative_analysis.empty
               /\ Len(comparative_analysis.period_data) = Len(time_periods)
               /\ \A j \in 1..Len(time_periods) : \A k \in Strings :
                      comparative_analysis.period_data[j].keywords.count[k]
                          = CountInPeriod(k, time_periods[j])

\* analyze_keyword_trends returned a result for 'ai' alone while the
\* lifecycle result of an earlier call on another corpus, with 'ml' and
\* 'nlp' among its keys, is still stored
C18_Witness ==
    /\ last_call = [op |-> "analyze_keyword_trends", status |-> "returned"]
    /\ KeysOf(Trends) = {"ai"}
    /\ {"ml", "nlp"} \subseteq KeysOf(Lifecycles)

\* detect_temporal_patterns returned a result with keys on the six-month
\* corpus after a comparison of the corpus spread over the three periods
PatternsReturnedAfterComparison ==
    /\ last_call = [op |-> "detect_temporal_patterns", status |-> "returned"]
    /\ KeysOf(Patterns) = {"ai"}
    /\ ~comparative_analysis.empty
    /\ comparative_analysis.period_data[1].keywords.count["nlp"] = 1

\* the persisted request count as today's calls read it
RequestCount == _load_daily_request_count(daily_request_count, today)

\* the DOIs for which the last advanced_query_download appended an entry
\* with the given status
DoisWithStatus(call, status) ==
    {call.filepaths[j].doi : j \in {j \in 1..Len(call.filepaths) :
                                       call.filepaths[j].status = status}}

\* the client returned a file path for DOI d in the call that just ended
PathReturned(d) ==
    /\ d \in Range(last_download'.requests)
    /\ \/ /\ last_download'.op = "download_xml_full_text"
          /\ last_download'.doi = d
          /\ last_download'.result = XmlPath(d)
       \/ /\ last_download'.op = "advanced_query_download"
          /\ d \in DoisWithStatus(last_download', "success")

\* a call on DOIs that are all recorded already answers without a request
\* and leaves the files alone
SkipsRecorded ==
    /\ last_download'.op = "download_xml_full_text"
          /\ last_download'.doi \in downloaded_articles
       => /\ last_download'.result = None
          /\ last_download'.requests = <<>>
          /\ UNCHANGED <<daily_request_count, downloaded_articles, download_count>>
    /\ last_download'.op = "advanced_query_download"
       => /\ \A d \in downloaded_articles :
                 /\ d \notin Range(last_download'.requests)
                 /\ \A j \in 1..Len(last_download'.filepaths) :
                        last_download'.filepaths[j].doi # d
          /\ Range(last_download'.records) \subseteq downloaded_articles \cup {NoDoi}
                => /\ last_download'.filepaths = <<>>
                   /\ UNCHANGED <<daily_request_count, downloaded_articles,
                                   download_count>>

\* C19: a DOI enters the tracking only in a call in which the client
\* returned a file path for it; a later download_xml_full_text of a recorded
\* DOI returns None, a later advanced_query_download skips its record, both
\* without a download request, without counting a request and without
\* changing the tracking; no DOI's file is written twice.
C19_RecordedDoisAreNotDownloadedAgain ==
    /\ [](\A d \in Dois : /\ download_count[d] <= 1
                           /\ d \in downloaded_articles <=> download_count[d] = 1)
    /\ [][calls' = calls + 1 =>
              /\ \A d \in downloaded_articles' \ downloaded_articles : PathReturned(d)
              /\ downloaded_articles \subseteq downloaded_articles'
              /\ SkipsRecorded]_vars

\* download_xml_full_text returned None, without a request, for a DOI
\* whose file was written by an earlier call
C19_Witness ==
    /\ last_download.op = "download_xml_full_text"
    /\ last_download.doi \in downloaded_articles
    /\ download_count[last_download.doi] = 1
    /\ last_download.result = None
    /\ last_download.requests = <<>>
    /\ RequestCount = 1

\* advanced_query_download skipped the recorded '10.1/a' and downloaded
\* '10.1/b' with one request
RecordedDoiSkippedInQuery ==
    /\ last_download.op = "advanced_query_download"
    /\ last_download.records = <<"10.1/a", "10.1/b">>
    /\ last_download.requests = <<"10.1/b">>
    /\ downloaded_articles = Dois
    /\ RequestCount = 2

\* the slope deltas computed for keyword k's series in the last call
SlopeDeltas(k) == rolling_slopes(monthly_counts(temporal_data.data[k]))

\* |delta| > 2 * std of all deltas; the deltas of one series share their
\* denominator, so the test is decided on the numerators
OverTwoStd(deltas, s) ==
    LET d == [j \in 1..Len(deltas) |-> deltas[j].slope_change.num]
        m == Len(d)
    IN m * m * s.slope_change.num * s.slope_change.num
           > 4 * (m * SumSeq([j \in 1..m |-> d[j] * d[j]]) - SumSeq(d) * SumSeq(d))

SignificantDeltas(k) ==
    {s \in Range(SlopeDeltas(k)) : OverTwoStd(SlopeDeltas(k), s)}

\* at most five trend changes are returned for a keyword
AtMostFiveTrendChanges ==
    \A j \in 1..Len(Patterns) : Len(Patterns[j].trend_changes) <= 5

\* C20: at most five trend changes are returned for a keyword, and when
\* more than five slope deltas exceed two standard deviations of all deltas,
\* no delta left out is larger in absolute value than a returned one.
C20_ReturnsTheFiveLargestChanges ==
    \A j \in 1..Len(Patterns) :
        LET returned == Range(Patterns[j].trend_changes)
            significant == SignificantDeltas(Patterns[j].keyword)
        IN /\ Cardinality(returned) <= 5
           /\ Cardinality(significant) > 5 =>
                  /\ Cardinality(returned) = 5
                  /\ returned \subseteq significant
                  /\ \A r \in returned : \A s \in significant \ returned :
                         Abs(s.slope_change.num) <= Abs(r.slope_change.num)

\* six deltas exceed the threshold and five are returned
SixSignificantDeltas ==
    /\ Len(Patterns) = 1
    /\ Cardinality(SignificantDeltas("ai")) = 6
    /\ Len(Patterns[1].trend_changes) = 5

Max(a, b) == IF a > b THEN a ELSE b

\* the window the trend-change detection is said to use on len months
StatedWindow(len) == Max(2, len \div 3)

\* The slope of the `window` months from (0-based) month i on minus the
\* slope of the `window` months before it, as the fraction num / den: the
\* least-squares slope over x = 0..window-1 is
\* Sum((2x - window + 1) * y[x]) / (window * (window^2 - 1) / 6).
WindowSlopeDelta(y, window, i) ==
    [num |-> SumSeq([x \in 1..window |->
                        (2 * x - window - 1) * (y[i + x] - y[i - window + x])]),
     den |-> (window * (window * window - 1)) \div 6]

\* the 0-based interior indices of the stated window whose delta exceeds two
\* standard deviations of the deltas of all of them
StatedSignificant(y) ==
    LET window == StatedWindow(Len(y))
        interior == window..(Len(y) - window - 1)
        m == Cardinality(interior)
        d == [i \in interior |-> WindowSlopeDelta(y, window, i).num]
        sum == SumSeq([j \in 1..m |-> d[window + j - 1]])
        squares == SumSeq([j \in 1..m |-> d[window + j - 1] * d[window + j - 1]])
    IN {i \in interior : m * m * d[i] * d[i] > 4 * (m * squares - sum * sum)}

\* C21: on the series of every keyword of the last detect_temporal_patterns
\* call, _detect_trend_changes returns nothing for fewer than 6 months;
\* otherwise every change it returns lies at an interior index of the
\* window max(2, len / 3), carries the slope delta of that window, exceeds
\* the threshold among the deltas of that window, and all such indices are
\* returned when there are at most five.
C21_WindowIsAThirdOfTheSeries ==
    last_call.op = "detect_temporal_patterns" =>
        \A k \in Range(temporal_data.order) :
            LET series == monthly_counts(temporal_data.data[k])
                y == SeriesOfKeyword(k)
                changes == _detect_trend_changes(series)
                returned == {changes[j].index : j \in 1..Len(changes)}
            IN IF Len(y) < 6 THEN changes = <<>>
               ELSE /\ returned \subseteq StatedSignificant(y)
                    /\ Cardinality(StatedSignificant(y)) <= 5
                           => returned = StatedSignificant(y)
                    /\ \A j \in 1..Len(changes) :
                           LET delta == WindowSlopeDelta(y, StatedWindow(Len(y)),
                                                         changes[j].index)
                           IN changes[j].slope_change.num * delta.den
                                  = delta.num * changes[j].slope_change.den

\* a trend change was returned for a series of twenty-one months
TrendChangeOnWideSeries ==
    /\ Len(Patterns) = 1
    /\ Len(SeriesOfKeyword("ai")) = 21
    /\ Patterns[1].trend_changes # <<>>

ChangePoints == IF temporal_patterns.empty THEN <<>> ELSE temporal_patterns.change_points

\* the trend-change points of all keywords of the stored pattern result
PooledTrendChanges ==
    UNION {{[keyword |-> Patterns[j].keyword, date |-> c.date,
             slope_change |-> c.slope_change] : c \in Range(Patterns[j].trend_changes)} :
           j \in 1..Len(Patterns)}

\* change_points is in descending order of |slope delta|
ChangePointsAreSorted ==
    \A a, b \in 1..Len(ChangePoints) :
        a < b => ~RatLess(RatAbs(ChangePoints[a].slope_change),
                          RatAbs(ChangePoints[b].slope_change))

\* C22: change_points holds min(N, 20) of the N trend-change points of all
\* keywords, in descending order of |slope delta|, and no point left out
\* has a larger |slope delta| than one that is listed.
C22_ChangePointsAreThePooledTopTwenty ==
    ~temporal_patterns.empty =>
        /\ Range(ChangePoints) \subseteq PooledTrendChanges
        /\ Len(ChangePoints) = Min(Cardinality(PooledTrendChanges), 20)
        /\ ChangePointsAreSorted
        /\ \A c \in Range(ChangePoints) : \A o \in PooledTrendChanges \ Range(ChangePoints) :
               ~RatLess(RatAbs(c.slope_change), RatAbs(o.slope_change))

\* every change point is a trend-change point with |slope delta| > 0.5, and
\* every such trend-change point is listed
ChangePointsAreTheLargeTrendChanges ==
    ~temporal_patterns.empty =>
        /\ ChangePointsAreSorted
        /\ Range(ChangePoints) =
               {c \in PooledTrendChanges :
                   2 * Abs(c.slope_change.num) > c.slope_change.den}

\* the 0-based position of the first month of y with the maximum count
FirstPeakIndex(y) ==
    (CHOOSE j \in 1..Len(y) : /\ y[j] = PeakOf(y)
                               /\ \A l \in 1..Len(y) : y[l] = PeakOf(y) => j <= l) - 1

\* C23: for every analyzed keyword, peak_position is the 0-based index of
\* the first month with the maximum count divided by lifespan_months and
\* lies in [0, 1]; current_stage is 'early_peak' iff peak_position < 0.3,
\* 'mature' iff 0.3 <= peak_position < 0.7 and 'late_stage' otherwise.
C23_StageFollowsPeakPosition ==
    \A j \in 1..Len(Lifecycles) :
        LET r == Lifecycles[j]
            y == SeriesOfKeyword(r.keyword)
            p == FirstPeakIndex(y)
            n == Len(y)
        IN /\ r.lifespan_months = n
           /\ ~r.peak_position.nan
           /\ r.peak_position.num * n = p * r.peak_position.den
           /\ 0 <= p /\ p <= n
           /\ r.current_stage \in {"early_peak", "mature", "late_stage"}
           /\ r.current_stage = "early_peak" <=> 10 * p < 3 * n
           /\ r.current_stage = "mature" <=> (3 * n <= 10 * p /\ 10 * p < 7 * n)
           /\ r.current_stage = "late_stage" <=> 7 * n <= 10 * p

\* a keyword whose maximum count occurs in two months, the first of them
\* the second of three months: peak_position 1/3, stage 'mature'
C23_Witness ==
    \E j \in 1..Len(Lifecycles) :
        /\ SeriesOfKeyword(Lifecycles[j].keyword) = <<1, 2, 2>>
        /\ Lifecycles[j].peak_position = Rat(1, 3)
        /\ Lifecycles[j].current_stage = "mature"

\* a keyword whose peak is the last of four months: stage 'late_stage'
LatePeakAnalyzed ==
    \E j \in 1..Len(Lifecycles) :
        /\ FirstPeakIndex(SeriesOfKeyword(Lifecycles[j].keyword)) = 3
        /\ Lifecycles[j].lifespan_months = 4
        /\ Lifecycles[j].current_stage = "late_stage"

\* a keyword whose peak is the second of four months: stage 'early_peak'
EarlyPeakAnalyzed ==
    \E j \in 1..Len(Lifecycles) :
        /\ FirstPeakIndex(SeriesOfKeyword(Lifecycles[j].keyword)) = 1
        /\ Lifecycles[j].lifespan_months = 4
        /\ Lifecycles[j].current_stage = "early_peak"

\* the publications of the compared corpus that belong to a period: those
\* with a resolved date whose year lies between start and end, both included
PublicationsOfPeriod(period) ==
    {i \in PubIds : /\ Dated(i)
                     /\ pub_dates[i].y \in period.start..period.end}

\* C24: compare_time_periods stores, for every configured period and every
\* keyword, the number of the period's publications that carry the keyword,
\* where a publication belongs to a period iff its date resolved and
\* start <= year <= end; the stored keys are the keywords carried by at
\* least one of them.
C24_PeriodCountsFollowResolvedYear ==
    ~comparative_analysis.empty =>
        /\ Len(comparative_analysis.period_data) = Len(time_periods)
        /\ \A j \in 1..Len(time_periods) :
               LET stored == comparative_analysis.period_data[j]
                   members == PublicationsOfPeriod(time_periods[j])
               IN /\ stored.name = time_periods[j].name
                  /\ \A k \in Strings :
                         stored.keywords.count[k]
                             = Cardinality({i \in members : Carries(i, k)})
                  /\ Range(stored.keywords.order)
                         = {k \in Strings : \E i \in members : Carries(i, k)}

\* the compared corpus holds a publication of 2015, one of 2016 and one
\* without any date; the first is counted in 'early' (2010-2015), the second
\* in 'middle' (2016-2020), the third in no period
C24_Witness ==
    /\ ~comparative_analysis.empty
    /\ time_periods = DefaultTimePeriods
    /\ publications = <<ComparePubInputs[6], ComparePubInputs[7], ComparePubInputs[8]>>
    /\ pub_dates = <<NoDate, [y |-> 2015, m |-> 1], [y |-> 2016, m |-> 1]>>
    /\ comparative_analysis.period_data[1].keywords.count["nlp"] = 1
    /\ comparative_analysis.period_data[2].keywords.count["cv"] = 1
    /\ \A j \in 1..3 : comparative_analysis.period_data[j].keywords.count["ai"] = 0

\* the keywords counted in both the a-th and the b-th configured period
CommonToPair(a, b) ==
    {k \in Strings : /\ PeriodCounts(time_periods[a].name)[k] > 0
                      /\ PeriodCounts(time_periods[b].name)[k] > 0}

\* C25: for every pair of configured periods with at least 5 keywords in
\* common, statistical_tests holds a Mann-Whitney U result of that pair on
\* two vectors of equal length, whatever the other periods contain.
C25_EveryPairWithFiveCommonKeywordsIsTested ==
    ~comparative_analysis.empty =>
        \A a, b \in 1..Len(time_periods) :
            (a < b /\ Cardinality(CommonToPair(a, b)) >= 5) =>
                \E l \in 1..Len(comparative_analysis.statistical_tests.pairwise) :
                    LET test == comparative_analysis.statistical_tests.pairwise[l]
                    IN /\ test.period1 = time_periods[a].name
                       /\ test.period2 = time_periods[b].name
                       /\ test.test_type = "Mann-Whitney U"
                       /\ test.sample_sizes[1] = test.sample_sizes[2]

\* with two configured periods, a pair with five common keywords is tested
PairOfTwoPeriodsTested ==
    /\ ~comparative_analysis.empty
    /\ Len(time_periods) = 2
    /\ Cardinality(CommonToPair(1, 2)) = 5
    /\ Len(comparative_analysis.statistical_tests.pairwise) = 1

\* the kinds of downloader call that count their requests
CountedCall(call) ==
    call.op \in {"check_article_existence", "download_xml_full_text",
                 "advanced_query_download"}

\* a call made with today's count at the limit asks the client for no
\* article and no XML, returns None or marks every record it tries as an
\* error, and leaves the count file as it is
NoArticleRequestAtLimit ==
    (calls' = calls + 1 /\ RequestCount = DAILY_REQUEST_LIMIT) =>
        /\ last_download'.requests = <<>>
        /\ last_download'.result = None
        /\ \A j \in 1..Len(last_download'.filepaths) :
               last_download'.filepaths[j].status = "error"
        /\ UNCHANGED <<daily_request_count, downloaded_articles>>

\* a call that counts a request over a missing count file or a count stored
\* for another day starts from 0: the file then holds today's date and the
\* number of requests the call counted
StaleCountIsZero ==
    (calls' = calls + 1 /\ daily_request_count.date # today
                        /\ daily_request_count' # daily_request_count) =>
        /\ daily_request_count'.date = today
        /\ daily_request_count'.count >= 1
        /\ daily_request_count'.count <= Max(1, Len(last_download'.records))
        /\ daily_request_count'.count >= Len(last_download'.requests)

\* C26: the count stored for today never exceeds DAILY_REQUEST_LIMIT; a
\* call made when today's count equals the limit issues no client request
\* at all; a count stored for another day is treated as 0.
C26_DailyLimitStopsClientRequests ==
    /\ [](RequestCount <= DAILY_REQUEST_LIMIT)
    /\ [][/\ NoArticleRequestAtLimit
           /\ StaleCountIsZero
           /\ (calls' = calls + 1 /\ RequestCount = DAILY_REQUEST_LIMIT) =>
                  ~last_download'.queried]_vars

\* what holds of the limit: the stored count stays within it, counted
\* requests stop at it and a stale count restarts from 0
CountedRequestsStopAtLimit ==
    /\ [](RequestCount <= DAILY_REQUEST_LIMIT)
    /\ [][NoArticleRequestAtLimit /\ StaleCountIsZero]_vars

\* download_xml_full_text was refused at the limit
DownloadRefusedAtLimit ==
    /\ last_download.op = "download_xml_full_text"
    /\ RequestCount = DAILY_REQUEST_LIMIT
    /\ last_download.doi \notin downloaded_articles
    /\ last_download.requests = <<>>

\* yesterday's count of 495 was replaced by a count of 1 for today
StaleCountRestarted ==
    /\ today = 2
    /\ daily_request_count = [date |-> 2, count |-> 1]
    /\ last_download.requests # <<>>


-----------------------------------------------------------------------------
(* make_request_with_retry: requests, waits and the way the call ends *)

RequestsSent == {i \in 1..Len(last_request.log) : last_request.log[i].kind = "request"}

\* the requests that ended in a requests.exceptions.RequestException
FailedRequests ==
    {i \in RequestsSent : last_request.log[i].outcome \in RequestExceptions}

Waits == {i \in 1..Len(last_request.log) : last_request.log[i].kind = "sleep"}

RetryCalled == last_request.status # "none"

\* a wait stands between a request that failed and the request that follows
WaitsOnlyBetweenAttempts ==
    \A i \in Waits :
        /\ i - 1 \in FailedRequests
        /\ i + 1 \in RequestsSent

\* C27: make_request_with_retry sends at most max_retries requests; it
\* returns the JSON body of the first request that succeeds and sends
\* nothing after it; it waits only between a failed attempt and the next
\* attempt, never after the last; and after max_retries failed requests in
\* a row it raises the exception of the last request and does not return
\* None.
C27_RetriesAreBoundedAndEndInResultOrRaise ==
    RetryCalled =>
        /\ Cardinality(RequestsSent) <= last_request.max_retries
        /\ \A i \in RequestsSent :
              last_request.log[i].outcome = "ok" =>
                  /\ i = Len(last_request.log)
                  /\ last_request.status = "returned"
                  /\ last_request.result = "json"
        /\ last_request.status = "returned" =>
              /\ last_request.result = "json"
              /\ Len(last_request.log) \in RequestsSent
              /\ last_request.log[Len(last_request.log)].outcome = "ok"
        /\ WaitsOnlyBetweenAttempts
        /\ Cardinality(FailedRequests) = last_request.max_retries =>
              /\ last_request.status = "raised"
              /\ last_request.result =
                     last_request.log[Len(last_request.log)].outcome

\* a call that failed twice, waited twice and returned the third response
C27_Witness ==
    /\ last_request.max_retries = 3
    /\ Cardinality(FailedRequests) = 2
    /\ Cardinality(Waits) = 2
    /\ last_request.status = "returned"
    /\ last_request.result = "json"

\* a call that used up its retries: three failed requests, two waits, raised
RetriesExhausted ==
    /\ last_request.max_retries = 3
    /\ Cardinality(FailedRequests) = 3
    /\ Cardinality(Waits) = 2
    /\ last_request.status = "raised"

\* a body that is not JSON is retried when requests raises its own
\* JSONDecodeError and ends the call at once when json raises ValueError
InvalidJsonRetried ==
    /\ Len(last_request.log) >= 3
    /\ last_request.log[1].outcome = "json_request_exception"
    /\ last_request.log[2].kind = "sleep"

InvalidJsonEndsTheCall ==
    /\ last_request.max_retries = 3
    /\ Len(last_request.log) = 1
    /\ last_request.status = "raised"
    /\ last_request.result = "json_value_error"


-----------------------------------------------------------------------------
(* The stored results: which call changes which *)

\* the attribute each analysis method assigns
ResultOf == [analyze_keyword_trends     |-> "keyword_trends",
             analyze_publication_trends |-> "publication_trends",
             detect_temporal_patterns   |-> "temporal_patterns",
             analyze_keyword_lifecycle  |-> "lifecycle_analysis",
             compare_time_periods       |-> "comparative_analysis"]

\* the step leaves every stored result but `own` as it was
OthersKept(own) ==
    /\ own # "keyword_trends"       => keyword_trends' = keyword_trends
    /\ own # "publication_trends"   => publication_trends' = publication_trends
    /\ own # "temporal_patterns"    => temporal_patterns' = temporal_patterns
    /\ own # "lifecycle_analysis"   => lifecycle_analysis' = lifecycle_analysis
    /\ own # "comparative_analysis" => comparative_analysis' = comparative_analysis

\* An analysis call changes its own stored result at most, and none when it
\* raises or returns the 'No valid publication dates found' marker; the
\* publications it was given are as the caller passed them.
AnalysisStepKeepsTheFrame ==
    last_call'.op \in DOMAIN ResultOf =>
        /\ OthersKept(IF last_call'.status = "returned"
                      THEN ResultOf[last_call'.op] ELSE "none")
        /\ publications' \in FrameInputs
        /\ keywords' = keywords

\* an export writes the five stored results and changes none of them
ExportStepEmitsTheStoredResults ==
    last_call'.op = "export_temporal_analysis" =>
        /\ OthersKept("none")
        /\ exported'.written = "complete"
        /\ exported'.results = StoredResults

\* C28: each analysis method changes only its own stored result and leaves
\* its inputs alone; a call that raises, or analyze_publication_trends
\* returning its error marker, changes no stored result; a later export
\* emits the results the last successful calls stored.
C28_CallsChangeOwnResultAndExportEmitsThem ==
    [][AnalysisStepKeepsTheFrame /\ ExportStepEmitsTheStoredResults]_vars

\* the part that holds: the frame of the analysis calls
StoredResultsChangeOnlyByTheirOwnCall == [][AnalysisStepKeepsTheFrame]_vars

\* the export emits the stored results as long as no trend result is stored
ExportEmitsWithoutTrendResults ==
    [][(last_call'.op = "export_temporal_analysis"
          /\ (keyword_trends.empty \/ keyword_trends.individual_trends = <<>>))
       => (exported'.written = "complete" /\ exported'.results = StoredResults)]_vars

\* a failed call after successful ones: the earlier results are all stored
RaisedWithResultsStored ==
    /\ last_call = [op |-> "detect_temporal_patterns", status |-> "raised"]
    /\ ~keyword_trends.empty
    /\ ~publication_trends.empty
    /\ ~temporal_patterns.empty

ErrorMarkerWithResultsStored ==
    /\ last_call = [op |-> "analyze_publication_trends", status |-> "returned_error"]
    /\ ~publication_trends.empty
    /\ publications = <<PubInputs[5]>>

ExportedPublicationTrends ==
    /\ exported.written = "complete"
    /\ ~exported.results.publication_trends.empty
    /\ ~exported.results.lifecycle_analysis.empty


-----------------------------------------------------------------------------
(* The three keyword lists of a trend analysis *)

ListedIn(list) == {list[j].keyword : j \in 1..Len(list)}

Growing == ListedIn(keyword_trends.top_growing_keywords)

Declining == ListedIn(keyword_trends.declining_keywords)

Stable == ListedIn(keyword_trends.stable_keywords)

TrendResultOf(k) ==
    LET j == CHOOSE l \in 1..Len(keyword_trends.individual_trends) :
                 keyword_trends.individual_trends[l].keyword = k
    IN keyword_trends.individual_trends[j]

\* C29: no keyword is in more than one of top_growing_keywords,
\* declining_keywords and stable_keywords, and every keyword listed in
\* stable_keywords has trend_direction 'stable'.
C29_ListsAreDisjointAndStableMeansStable ==
    ~keyword_trends.empty =>
        /\ Growing \cap Declining = {}
        /\ Growing \cap Stable = {}
        /\ Declining \cap Stable = {}
        /\ \A k \in Stable : TrendResultOf(k).trend_direction = "stable"

\* what the code keeps: a keyword is never both growing and declining, a
\* listed keyword's direction fits its list, and a stable keyword has a
\* slope below 0.01 in absolute value, zero or not
ListsFollowSlope ==
    ~keyword_trends.empty =>
        /\ Growing \cap Declining = {}
        /\ \A k \in Growing : TrendResultOf(k).trend_direction = "increasing"
        /\ \A k \in Declining : TrendResultOf(k).trend_direction = "decreasing"
        /\ \A k \in Stable : AbsBelowHundredth(TrendResultOf(k).trend_slope)

StableListedWithIncreasingDirection ==
    /\ ~keyword_trends.empty
    /\ \E k \in Stable : TrendResultOf(k).trend_direction = "increasing"

StableListedWithZeroSlope ==
    /\ ~keyword_trends.empty
    /\ \E k \in Stable : TrendResultOf(k).trend_direction = "stable"

GrowingListed ==
    /\ ~keyword_trends.empty
    /\ Growing # {}

DecliningListed ==
    /\ ~keyword_trends.empty
    /\ Declining # {}


-----------------------------------------------------------------------------
(* The concentration index of a period *)

PeriodMetricsStored == comparative_analysis.overall_trends.period_metrics

\* the stored keyword counts of the period called `name`
StoredPeriod(name) ==
    LET j == CHOOSE l \in 1..Len(comparative_analysis.period_data) :
                 comparative_analysis.period_data[l].name = name
    IN comparative_analysis.period_data[j].keywords

\* the sum of |c_k - c_l| over the unordered pairs of keywords of a period:
\* with c_1 >= ... >= c_n, the sum of (2i - n - 1) * c_i is its negative
SpreadOfCounts(kc) ==
    LET ks == kc.order
    IN SumSeq([i \in 1..Len(ks) |->
                  SumSeq([j \in 1..Len(ks) |->
                             IF i < j THEN Abs(kc.count[ks[i]] - kc.count[ks[j]])
                             ELSE 0])])

TotalOfCounts(kc) == SumSeq([i \in 1..Len(kc.order) |-> kc.count[kc.order[i]]])

====
